---- MODULE Spec2Model ----
(***************************************************************************)
(* Integration-flow pipeline of the testing-augmentation repository:       *)
(*   stage 2  classify_integration_points                                  *)
(*   stage 3  build_integration_graph (build_callable_index,               *)
(*            resolve_target, check_for_exclusion_decorator)               *)
(*   stage 4  analyze_patterns                                             *)
(*   stage 5  enumerate_flows                                              *)
(*   stage 6  generate_windows                                             *)
(*   stage 1  _normalize_target (extract_leder_integrations)               *)
(* Stages 2 and 3 are functions of their input documents; each is one      *)
(* action of SpecGraph.  enumerate_flows is a loop over a work stack; each *)
(* iteration of its for and while loops is one action of SpecFlows.        *)
(***************************************************************************)
EXTENDS Integers, Sequences, FiniteSets, TLC

VARIABLES
    stage,                      \* which pipeline step has run
    points,                     \* points_data['integrationPoints']
    ledger,                     \* the unit ledgers' callable entries, in walk order
    classification,             \* result of classify_integration_points
    graph,                      \* result of build_integration_graph
    graph_data,                 \* the graph document given to enumerate_flows
    entry_order,                \* iteration order of the set entry_points
    pc,                         \* position in enumerate_flows
    entry_idx,                  \* position of the for loop in entry_order
    stack,                      \* the DFS work stack
    flows,                      \* flows recorded so far
    flow_counter,
    flows_from_this_entry,
    paths_explored_this_entry,
    run,                        \* 1 for the first run of enumerate_flows, 2 for a re-run
    first_run_flows,            \* the list the first run returned
    unit_records,               \* the index records _normalize_target resolves against
    raw_target,                 \* the raw target text given to _normalize_target
    from_unit,                  \* the calling unit: its id and its name
    target_ref,                 \* what _normalize_target returned
    flows_data,                 \* the flows document given to generate_windows
    window_config,              \* processing.min_window_length and max_window_length
    win_pc,                     \* position of generate_windows
    windows,                    \* the windows generate_windows returned
    analysis                    \* the locals of analyze_patterns, by name

vars == <<stage, points, ledger, classification, graph, graph_data, entry_order,
          pc, entry_idx, stack, flows, flow_counter, flows_from_this_entry,
          paths_explored_this_entry, run, first_run_flows,
          unit_records, raw_target, from_unit, target_ref,
          flows_data, window_config, win_pc, windows, analysis>>

graphVars == <<stage, points, ledger, classification, graph>>

flowVars == <<graph_data, entry_order, pc, entry_idx, stack, flows, flow_counter,
              flows_from_this_entry, paths_explored_this_entry, run, first_run_flows>>

resolveVars == <<unit_records, raw_target, from_unit, target_ref>>

windowVars == <<flows_data, window_config, win_pc, windows>>

-----------------------------------------------------------------------------
(* Python values *)

\* Python's None
NONE == "None"

\* Truthiness of a str-or-None value: None and '' are false.
Truthy(s) == s \notin {NONE, ""}

\* seq with x appended for every element the operator maps to a sequence
RECURSIVE FlatMap(_, _)
FlatMap(Op(_), seq) ==
    IF seq = <<>> THEN <<>> ELSE Op(Head(seq)) \o FlatMap(Op, Tail(seq))

\* [Op(x) for x in seq]
MapSeq(Op(_), seq) == [i \in 1..Len(seq) |-> Op(seq[i])]

\* the elements of a sequence
Range(seq) == {seq[i] : i \in 1..Len(seq)}

\* s is an initial segment of t
IsPrefix(s, t) == Len(s) <= Len(t) /\ SubSeq(t, 1, Len(s)) = s

-----------------------------------------------------------------------------
(* Bounds of the model *)

\* the longest list of integration points given to stages 2 and 3
MaxPoints == 3

\* ids of the integration points, one per position of the list (ids are unique:
\* an id is 'I' + the id of the execution item of the call)
IdPool == <<"I1", "I2", "I3", "I4", "I5">>

-----------------------------------------------------------------------------
(* Stage 2: classify_integration_points *)

\* [the ids of the points whose field is key, in list order]
IdsWhere(pts, Field(_), key) ==
    FlatMap(LAMBDA p : IF Field(p) = key THEN <<p.id>> ELSE <<>>, pts)

\* callable_id -> ids of the points whose SOURCE is that callable
callables_with_outgoing(pts) ==
    LET Src(p) == p.sourceCallableId
    IN  [k \in {Src(p) : p \in {q \in Range(pts) : Truthy(Src(q))}} |->
            IdsWhere(pts, Src, k)]

\* target_raw -> ids of the points that call this target
targets_with_incoming(pts) ==
    LET Tgt(p) == p.target
    IN  [k \in {Tgt(p) : p \in {q \in Range(pts) : Truthy(Tgt(q))}} |->
            IdsWhere(pts, Tgt, k)]

\* the ids of the points with a boundary descriptor
boundary_ids(pts) == {p.id : p \in {q \in Range(pts) : Truthy(q.boundary)}}

\* A boundary point that is also run through the decision tree (the continue
\* of the boundary branch left out).
AppendedToNoContinue(point, pts) ==
    LET source_is_entry ==
            point.sourceCallableId \notin DOMAIN targets_with_incoming(pts)
        target_is_terminal ==
            point.target \notin DOMAIN callables_with_outgoing(pts)
    IN  (IF point.id \in boundary_ids(pts) THEN <<"terminalNodes">> ELSE <<>>)
        \o (IF source_is_entry THEN <<"entryPoints">>
            ELSE IF target_is_terminal THEN <<"terminalNodes">>
            ELSE <<"intermediateSeams">>)

\* The lists the second loop appends point's id to.
AppendedTo(point, pts) ==
    IF point.id \in boundary_ids(pts)
    THEN <<"terminalNodes">>
    ELSE LET source_is_entry ==
                 point.sourceCallableId \notin DOMAIN targets_with_incoming(pts)
             target_is_terminal ==
                 point.target \notin DOMAIN callables_with_outgoing(pts)
         IN  IF source_is_entry THEN <<"entryPoints">>
             ELSE IF target_is_terminal THEN <<"terminalNodes">>
             ELSE <<"intermediateSeams">>

\* One of the three result lists, in the order of the points.
ClassList(name, pts) ==
    FlatMap(LAMBDA p :
                FlatMap(LAMBDA l : IF l = name THEN <<p.id>> ELSE <<>>,
                        AppendedTo(p, pts)),
            pts)

\* The returned classification (its metadata counts are the lengths of the lists).
classify_integration_points(pts) ==
    IF pts = <<>>
    THEN [entryPoints |-> <<>>, intermediateSeams |-> <<>>, terminalNodes |-> <<>>]
    ELSE [entryPoints       |-> ClassList("entryPoints", pts),
          intermediateSeams |-> ClassList("intermediateSeams", pts),
          terminalNodes     |-> ClassList("terminalNodes", pts)]

-----------------------------------------------------------------------------
(* Stage 3: build_integration_graph *)

\* walk_entries: qualified name of a ledger entry under its enclosing class
QualifiedName(entry) ==
    IF entry.parent_class # ""
    THEN entry.parent_class \o "." \o entry.name
    ELSE entry.name

\* the record build_callable_index stores for a ledger entry
IndexRecord(entry) ==
    [unit          |-> entry.unit,
     callableId    |-> entry.id,
     qualifiedName |-> QualifiedName(entry),
     fullQualified |-> entry.unit \o "::" \o QualifiedName(entry)]

\* the keys a ledger entry is indexed under: its simple name and, when
\* different, its qualified name; only callables and classes with an id
IndexKeys(entry) ==
    IF entry.kind \in {"callable", "class"} /\ Truthy(entry.id)
    THEN <<entry.name>> \o
         (IF QualifiedName(entry) # entry.name THEN <<QualifiedName(entry)>> ELSE <<>>)
    ELSE <<>>

\* callable_name -> list of index records, in walk order
build_callable_index(ldg) ==
    [k \in UNION {Range(IndexKeys(e)) : e \in Range(ldg)} |->
        FlatMap(LAMBDA e : IF k \in Range(IndexKeys(e)) THEN <<IndexRecord(e)>> ELSE <<>>,
                ldg)]

Unresolved ==
    [status |-> "unresolved", unitName |-> NONE, callableId |-> NONE,
     name |-> NONE, qualifiedName |-> NONE, matches |-> <<>>]

resolve_target(target, callable_index) ==
    IF ~Truthy(target) \/ target \notin DOMAIN callable_index
    THEN Unresolved
    ELSE LET matches == callable_index[target]
         IN  IF Len(matches) = 1
             THEN [status |-> "resolved",
                   unitName |-> matches[1].unit,
                   callableId |-> matches[1].callableId,
                   name |-> target,
                   qualifiedName |-> matches[1].qualifiedName,
                   matches |-> <<>>]
             ELSE [status |-> "ambiguous", unitName |-> NONE, callableId |-> NONE,
                   name |-> target, qualifiedName |-> NONE,
                   matches |-> MapSeq(LAMBDA m : m.fullQualified, matches)]

ExclusionDecorators == {"MechanicalOperation", "UtilityOperation"}

\* check_for_exclusion_decorator: the decorator that excludes the callable, or
\* NONE. find_callable returns the first entry of the unit with the id.
check_for_exclusion_decorator(callable_id, unit_name, ldg) ==
    LET found == SelectSeq(ldg, LAMBDA e : e.unit = unit_name /\ e.id = callable_id)
        hits  == IF found = <<>> THEN <<>>
                 ELSE SelectSeq(found[1].decorators, LAMBDA d : d \in ExclusionDecorators)
    IN  IF hits = <<>> THEN NONE ELSE hits[1]

\* The first loop: the point with targetResolved, and excludeFromFlows and
\* fixtureCallableId set when the resolved target carries an exclusion
\* decorator (the two keys are absent otherwise: FALSE and NONE here).
ResolvePoint(point, callable_index, ldg) ==
    LET resolution == resolve_target(point.target, callable_index)
        should_exclude ==
            /\ resolution.status = "resolved"
            /\ Truthy(resolution.callableId) /\ Truthy(resolution.unitName)
            /\ check_for_exclusion_decorator(resolution.callableId,
                                             resolution.unitName, ldg) # NONE
    IN  [id |-> point.id,
         sourceUnit |-> point.sourceUnit,
         sourceCallableId |-> point.sourceCallableId,
         target |-> point.target,
         boundary |-> point.boundary,
         targetResolved |-> resolution,
         excludeFromFlows |-> should_exclude,
         fixtureCallableId |-> IF should_exclude THEN resolution.callableId ELSE NONE]

\* (source_unit, source_callable_id) -> ids of the points of that callable
integrations_by_source_callable(resolved_points) ==
    LET Key(p) == <<p.sourceUnit, p.sourceCallableId>>
        Keyed == {p \in Range(resolved_points) :
                     Truthy(p.sourceUnit) /\ Truthy(p.sourceCallableId)}
    IN  [k \in {Key(p) : p \in Keyed} |->
            FlatMap(LAMBDA p : IF p \in Keyed /\ Key(p) = k THEN <<p.id>> ELSE <<>>,
                    resolved_points)]

\* The bucket looked up by the callable id alone (the unit dropped from the key).
TargetIntegrationsByCallableOnly(point, resolved_points) ==
    LET resolution == point.targetResolved
    IN  IF resolution.status # "resolved" THEN <<>>
        ELSE IF ~Truthy(resolution.unitName) \/ ~Truthy(resolution.callableId) THEN <<>>
        ELSE FlatMap(LAMBDA p : IF p.sourceCallableId = resolution.callableId
                                THEN <<p.id>> ELSE <<>>,
                     resolved_points)

\* The ids the edge loop links point to: none unless its target is resolved,
\* else the bucket of (target unit, target callable id).
TargetIntegrations(point, resolved_points) ==
    LET resolution == point.targetResolved
        by_source  == integrations_by_source_callable(resolved_points)
        key        == <<resolution.unitName, resolution.callableId>>
    IN  IF resolution.status # "resolved" THEN <<>>
        ELSE IF ~Truthy(resolution.unitName) \/ ~Truthy(resolution.callableId) THEN <<>>
        ELSE IF key \in DOMAIN by_source THEN by_source[key] ELSE <<>>

\* The edge loop with a point never linked to itself (a self-call dropped).
BuildEdgesNoSelfCall(resolved_points) ==
    FlatMap(LAMBDA p :
                MapSeq(LAMBDA t : [from |-> p.id, to |-> t,
                                   reason |-> <<p.id, p.target, t>>],
                       SelectSeq(TargetIntegrations(p, resolved_points),
                                 LAMBDA t : t # p.id)),
            resolved_points)

\* The edges, in the order of the points and, for one point, of its bucket.
BuildEdges(resolved_points) ==
    FlatMap(LAMBDA p :
                MapSeq(LAMBDA t : [from |-> p.id, to |-> t,
                                   reason |-> <<p.id, p.target, t>>],
                       TargetIntegrations(p, resolved_points)),
            resolved_points)

\* The returned graph document (metadata counts left out).
build_integration_graph(pts, classification_data, ldg) ==
    IF pts = <<>>
    THEN [nodes |-> <<>>, edges |-> <<>>,
          classification |-> [entryPoints |-> <<>>, intermediateSeams |-> <<>>,
                              terminalNodes |-> <<>>]]
    ELSE LET callable_index  == build_callable_index(ldg)
             resolved_points == MapSeq(LAMBDA p : ResolvePoint(p, callable_index, ldg), pts)
         IN  [nodes |-> resolved_points,
              edges |-> BuildEdges(resolved_points),
              classification |-> classification_data]

-----------------------------------------------------------------------------
(* Inputs of stages 2 and 3 *)

\* The ledgers, flattened in walk order. Unit ua: functions foo (C1) and bar
\* (C2). Unit ub: class K (C2) with method bar (C1). Callable ids repeat across
\* units; the bare name bar is shared by ua.bar and ub.K.bar.
Ledger(foo_decorators, kbar_decorators) ==
    << [unit |-> "ua", kind |-> "unit",     id |-> NONE, name |-> "ua",
        parent_class |-> "", decorators |-> <<>>],
       [unit |-> "ua", kind |-> "callable", id |-> "C1", name |-> "foo",
        parent_class |-> "", decorators |-> foo_decorators],
       [unit |-> "ua", kind |-> "callable", id |-> "C2", name |-> "bar",
        parent_class |-> "", decorators |-> <<>>],
       [unit |-> "ub", kind |-> "unit",     id |-> NONE, name |-> "ub",
        parent_class |-> "", decorators |-> <<>>],
       [unit |-> "ub", kind |-> "class",    id |-> "C2", name |-> "K",
        parent_class |-> "", decorators |-> <<>>],
       [unit |-> "ub", kind |-> "callable", id |-> "C1", name |-> "bar",
        parent_class |-> "K", decorators |-> kbar_decorators] >>

LedgerUniverse ==
    {Ledger(d, <<"MechanicalOperation">>) :
        d \in {<<>>, <<"staticmethod", "UtilityOperation">>}}

\* What a point can be: its source callable and its raw target text (foo
\* resolves to ua's C1, bar is ambiguous between ua.bar and ub.K.bar, C1 is in
\* no index), without a boundary descriptor; or a boundary call, one whose
\* target text resolves and one whose target text does not.
PointFields ==
    [source   : {<<"ua", "C1">>, <<"ub", "C1">>, <<"ua", "C2">>},
     target   : {"foo", "bar", "C1"},
     boundary : {NONE}]
    \cup {[source |-> <<"ua", "C1">>, target |-> "foo", boundary |-> "filesystem"],
          [source |-> <<"ub", "C1">>, target |-> "C1",  boundary |-> "filesystem"]}

PointLists ==
    UNION {{[i \in 1..n |->
                [id |-> IdPool[i],
                 sourceUnit |-> f[i].source[1],
                 sourceCallableId |-> f[i].source[2],
                 target |-> f[i].target,
                 boundary |-> f[i].boundary]] : f \in [1..n -> PointFields]}
           : n \in 0..MaxPoints}

EmptyClassification ==
    [entryPoints |-> <<>>, intermediateSeams |-> <<>>, terminalNodes |-> <<>>]

EmptyGraph == [nodes |-> <<>>, edges |-> <<>>, classification |-> EmptyClassification]

\* analyze_patterns not called
AnalysisIdle ==
    [pc |-> "idle", graph_data |-> EmptyGraph, entry_order |-> <<>>, entry_idx |-> 0,
     stack |-> <<>>, subsequence_counts |-> <<>>, cycle_patterns |-> <<>>,
     flow_lengths |-> <<>>, flows_analyzed |-> 0, long_flows_count |-> 0,
     total_paths_explored |-> 0]

\* generate_windows not called
WindowsIdle ==
    /\ flows_data = <<>>
    /\ window_config = [min_window_length |-> 2, max_window_length |-> 0]
    /\ win_pc = "idle"
    /\ windows = <<>>

\* _normalize_target not called
ResolveIdle ==
    /\ unit_records = <<>>
    /\ raw_target = <<>>
    /\ from_unit = [id |-> NONE, name |-> <<>>]
    /\ target_ref = [status |-> "not called", note |-> "", record |-> <<>>,
                     candidates |-> <<>>]

\* enumerate_flows not running
FlowsIdle ==
    /\ graph_data = EmptyGraph
    /\ entry_order = <<>>
    /\ pc = "idle"
    /\ entry_idx = 0
    /\ stack = <<>>
    /\ flows = <<>>
    /\ flow_counter = 0
    /\ flows_from_this_entry = 0
    /\ paths_explored_this_entry = 0
    /\ run = 0
    /\ first_run_flows = <<>>

InitGraph ==
    /\ stage = "points"
    /\ points \in PointLists
    /\ ledger \in LedgerUniverse
    /\ classification = EmptyClassification
    /\ graph = EmptyGraph
    /\ FlowsIdle
    /\ ResolveIdle
    /\ WindowsIdle
    /\ analysis = AnalysisIdle

\* Stage 2 runs on the points of stage 1.
Classify ==
    /\ stage = "points"
    /\ classification' = classify_integration_points(points)
    /\ stage' = "classified"
    /\ UNCHANGED <<points, ledger, graph>>
    /\ UNCHANGED <<flowVars, resolveVars, windowVars, analysis>>

\* Stage 3 runs on the points and the classification of stage 2.
BuildGraph ==
    /\ stage = "classified"
    /\ graph' = build_integration_graph(points, classification, ledger)
    /\ stage' = "graph"
    /\ UNCHANGED <<points, ledger, classification>>
    /\ UNCHANGED <<flowVars, resolveVars, windowVars, analysis>>

NextGraph == Classify \/ BuildGraph

SpecGraph == InitGraph /\ [][NextGraph]_vars

-----------------------------------------------------------------------------
(* Stage 5: enumerate_flows *)

\* config.get_max_flow_depth() (at least 2 by validate_config)
max_depth == 3

\* The three caps of enumerate_flows, scaled down from 10000, 100 and 10000 so
\* that graphs of four nodes reach them.
max_flows_total == 3
max_flows_per_entry == 2
max_paths_per_entry == 5

\* dict.get(key, default) on a node document
Get(data, key, default) == IF key \in DOMAIN data THEN data[key] ELSE default

\* GraphNode.from_dict, for the fields enumerate_flows reads. The boundary is
\* handed over as it is in the document, a dict; it is held here as the set of
\* that dict, and None as the empty set.
GraphNode_from_dict(data) ==
    [id                  |-> data.id,
     target              |-> Get(data, "target", ""),
     boundary            |-> IF "boundary" \in DOMAIN data THEN {data.boundary} ELSE {},
     exclude_from_flows  |-> Get(data, "exclude_from_flows", FALSE),
     fixture_callable_id |-> Get(data, "fixture_callable_id", NONE)]

load_graph_nodes(data) == MapSeq(GraphNode_from_dict, data.nodes)

\* entry_points = set(classification.get('entryPoints', []))
entry_points(data) == Range(data.classification.entryPoints)

\* from id -> the to ids of its edges, in the order of the edge list
adjacency(edges) ==
    LET Ok(e) == Truthy(e.from) /\ Truthy(e.to)
    IN  [k \in {e.from : e \in {x \in Range(edges) : Ok(x)}} |->
            FlatMap(LAMBDA e : IF Ok(e) /\ e.from = k THEN <<e.to>> ELSE <<>>, edges)]

\* The to ids of all edges, whatever their from id.
NeighborsOfEveryEdge(data, current_id) ==
    FlatMap(LAMBDA e : IF Truthy(e.from) /\ Truthy(e.to) THEN <<e.to>> ELSE <<>>,
            data.edges)

\* adjacency.get(current_id, [])
Neighbors(data, current_id) ==
    LET adj == adjacency(data.edges)
    IN  IF current_id \in DOMAIN adj THEN adj[current_id] ELSE <<>>

\* node id -> GraphNode
nodes_by_id(data) ==
    LET nodes_list == load_graph_nodes(data)
    IN  [k \in {n.id : n \in Range(nodes_list)} |->
            (CHOOSE n \in Range(nodes_list) :
                /\ n.id = k
                /\ \A i \in 1..Len(nodes_list) :
                      nodes_list[i].id = k =>
                          \E j \in i..Len(nodes_list) : nodes_list[j] = n)]

\* the orders a for loop can visit the elements of a set of str in (the order
\* follows the strings' hashes, which differ from one process to the next)
IterationOrders(set) ==
    {o \in [1..Cardinality(set) -> set] : \A i, j \in DOMAIN o : o[i] = o[j] => i = j}

\* The for loop stays at the entry point it is at.
SameEntry(i) == i

\* for entry_idx, entry_id in enumerate(entry_points): the next position
NextEntry(i) == i + 1

\* Every neighbour is pushed, on the path already or not.
NeighborsToPushAll(neighbors, visited) == neighbors

\* the neighbours the expansion loop pushes: those not on the current path
NeighborsToPush(neighbors, visited) ==
    SelectSeq(neighbors, LAMBDA n : n \notin visited)

\* A path counts as complete when no neighbour is left to visit.
NoOutgoingEdgesOrAllVisited(neighbors, visited) ==
    \A i \in 1..Len(neighbors) : neighbors[i] \in visited

\* STRUCTURAL TERMINAL CONDITION: not neighbors
NoOutgoingEdges(neighbors, visited) == neighbors = <<>>

\* The exploration limit tested with > instead of >=.
PathsCapExceeded(explored) == explored > max_paths_per_entry

\* paths_explored_this_entry >= max_paths_per_entry
PathsCapReached(explored) == explored >= max_paths_per_entry

\* The new flow replaces the list's last element.
RecordFlowOverLast(recorded, flow) ==
    IF recorded = <<>> THEN <<flow>>
    ELSE SubSeq(recorded, 1, Len(recorded) - 1) \o <<flow>>

\* flows.append(Flow(...))
RecordFlow(recorded, flow) == Append(recorded, flow)

\* The Flow built for a path that ends at current_id, numbered counter.
MakeFlow(data, counter, entry_id, current_id, path, reason) ==
    LET by_id    == nodes_by_id(data)
        sequence == SelectSeq(path, LAMBDA id : id \in DOMAIN by_id)
        node     == by_id[current_id]
        note     == IF reason = "depth_limit" THEN <<"exceeded maximum depth", max_depth>>
                    ELSE IF current_id \notin DOMAIN by_id THEN NONE
                    ELSE IF node.exclude_from_flows
                         THEN <<"Excluded operation", node.fixture_callable_id>>
                    ELSE <<"Leaf node in integration graph">>
    IN  [flow_id     |-> <<"FLOW", counter>>,
         description |-> MapSeq(LAMBDA id :
                                    IF by_id[id].exclude_from_flows
                                    THEN <<"FIXTURE", by_id[id].fixture_callable_id>>
                                    ELSE by_id[id].target,
                                sequence),
         length      |-> Len(path),
         sequence    |-> sequence,
         entry_point |-> [integration_id |-> entry_id],
         termination |-> [integration_id |-> current_id, reason |-> reason, note |-> note]]

\* the entry point the for loop is at
CurrentEntry == entry_order[entry_idx]

\* if current_node: if current_node.boundary: the note reads
\* current_node.boundary.kind, an attribute a dict does not have
BoundaryNoteRaises(data, current_id) ==
    /\ current_id \in DOMAIN nodes_by_id(data)
    /\ nodes_by_id(data)[current_id].boundary # {}

\* if not nodes_list or not entry_points: return []
ReturnEmpty ==
    /\ pc = "start"
    /\ load_graph_nodes(graph_data) = <<>> \/ entry_points(graph_data) = {}
    /\ pc' = "done"
    /\ UNCHANGED <<graph_data, entry_order, entry_idx, stack, flows, flow_counter,
                   flows_from_this_entry, paths_explored_this_entry, run, first_run_flows>>

\* the for loop over the entry points begins
BeginEntries ==
    /\ pc = "start"
    /\ load_graph_nodes(graph_data) # <<>> /\ entry_points(graph_data) # {}
    /\ pc' = "for"
    /\ entry_idx' = 1
    /\ UNCHANGED <<graph_data, entry_order, stack, flows, flow_counter,
                   flows_from_this_entry, paths_explored_this_entry, run, first_run_flows>>

\* the for loop has visited every entry point
EntriesExhausted ==
    /\ pc = "for"
    /\ entry_idx > Len(entry_order)
    /\ pc' = "done"
    /\ UNCHANGED <<graph_data, entry_order, entry_idx, stack, flows, flow_counter,
                   flows_from_this_entry, paths_explored_this_entry, run, first_run_flows>>

\* if entry_id not in nodes_by_id: continue
SkipUnknownEntry ==
    /\ pc = "for"
    /\ entry_idx <= Len(entry_order)
    /\ CurrentEntry \notin DOMAIN nodes_by_id(graph_data)
    /\ entry_idx' = NextEntry(entry_idx)
    /\ UNCHANGED <<graph_data, entry_order, pc, stack, flows, flow_counter,
                   flows_from_this_entry, paths_explored_this_entry, run, first_run_flows>>

\* if flow_counter >= max_flows_total: break (out of the for loop)
StopAtTotalCap ==
    /\ pc = "for"
    /\ entry_idx <= Len(entry_order)
    /\ CurrentEntry \in DOMAIN nodes_by_id(graph_data)
    /\ flow_counter >= max_flows_total
    /\ pc' = "done"
    /\ UNCHANGED <<graph_data, entry_order, entry_idx, stack, flows, flow_counter,
                   flows_from_this_entry, paths_explored_this_entry, run, first_run_flows>>

\* the search of one entry point begins: counters reset, the entry pushed
BeginEntry ==
    /\ pc = "for"
    /\ entry_idx <= Len(entry_order)
    /\ CurrentEntry \in DOMAIN nodes_by_id(graph_data)
    /\ flow_counter < max_flows_total
    /\ flows_from_this_entry' = 0
    /\ paths_explored_this_entry' = 0
    /\ stack' = <<[current_id |-> CurrentEntry, path |-> <<CurrentEntry>>,
                   visited |-> {CurrentEntry}]>>
    /\ pc' = "while"
    /\ UNCHANGED <<graph_data, entry_order, entry_idx, flows, flow_counter, run,
                   first_run_flows>>

\* while stack: the stack is empty, the for loop moves on
StackEmpty ==
    /\ pc = "while"
    /\ stack = <<>>
    /\ pc' = "for"
    /\ entry_idx' = NextEntry(entry_idx)
    /\ UNCHANGED <<graph_data, entry_order, stack, flows, flow_counter,
                   flows_from_this_entry, paths_explored_this_entry, run, first_run_flows>>

\* the state stack.pop() returns, and what it leaves
Top == stack[Len(stack)]
Popped == SubSeq(stack, 1, Len(stack) - 1)

\* One of the three breaks of the while loop: the popped state is dropped and
\* the for loop moves on.
BreakWhile ==
    /\ stack' = Popped
    /\ paths_explored_this_entry' = paths_explored_this_entry + 1
    /\ pc' = "for"
    /\ entry_idx' = NextEntry(entry_idx)
    /\ UNCHANGED <<graph_data, entry_order, flows, flow_counter, flows_from_this_entry,
                   run, first_run_flows>>

\* if paths_explored_this_entry >= max_paths_per_entry: break
BreakAtPathsCap ==
    /\ pc = "while"
    /\ stack # <<>>
    /\ PathsCapReached(paths_explored_this_entry + 1)
    /\ BreakWhile

\* if flows_from_this_entry >= max_flows_per_entry: break
BreakAtEntryFlowsCap ==
    /\ pc = "while"
    /\ stack # <<>>
    /\ ~PathsCapReached(paths_explored_this_entry + 1)
    /\ flows_from_this_entry >= max_flows_per_entry
    /\ BreakWhile

\* if flow_counter >= max_flows_total: break (out of the while loop)
BreakAtTotalCap ==
    /\ pc = "while"
    /\ stack # <<>>
    /\ ~PathsCapReached(paths_explored_this_entry + 1)
    /\ flows_from_this_entry < max_flows_per_entry
    /\ flow_counter >= max_flows_total
    /\ BreakWhile

\* no cap stops the iteration that pops the top of the stack
NoCapHit ==
    /\ pc = "while"
    /\ stack # <<>>
    /\ ~PathsCapReached(paths_explored_this_entry + 1)
    /\ flows_from_this_entry < max_flows_per_entry
    /\ flow_counter < max_flows_total

\* The depth check placed after the check for outgoing edges: a path that
\* ends at a node without neighbours is never cut by the depth limit.
DepthLimitAfterNoOutgoing(path, neighbors) ==
    Len(path) >= max_depth /\ neighbors # <<>>

\* if len(path) >= max_depth, tested before adjacency.get(current_id) is read
DepthLimitApplies(path, neighbors) == Len(path) >= max_depth

\* a flow is recorded for the popped path; continue
Emit(reason) ==
    /\ flow_counter' = flow_counter + 1
    /\ flows_from_this_entry' = flows_from_this_entry + 1
    /\ flows' = RecordFlow(flows, MakeFlow(graph_data, flow_counter + 1, CurrentEntry,
                                           Top.current_id, Top.path, reason))
    /\ stack' = Popped
    /\ paths_explored_this_entry' = paths_explored_this_entry + 1
    /\ UNCHANGED <<graph_data, entry_order, pc, entry_idx, run, first_run_flows>>

\* if len(path) >= max_depth: record the flow with reason depth_limit
EmitDepthLimit ==
    /\ NoCapHit
    /\ DepthLimitApplies(Top.path, Neighbors(graph_data, Top.current_id))
    /\ Emit("depth_limit")

\* if not neighbors: record the flow with reason no_outgoing_edges
EmitNoOutgoingEdges ==
    /\ NoCapHit
    /\ ~DepthLimitApplies(Top.path, Neighbors(graph_data, Top.current_id))
    /\ NoOutgoingEdges(Neighbors(graph_data, Top.current_id), Top.visited)
    /\ ~BoundaryNoteRaises(graph_data, Top.current_id)
    /\ Emit("no_outgoing_edges")

\* if not neighbors, at a node with a boundary: the counters are incremented,
\* then building the note raises AttributeError, which nothing catches
RaiseAtBoundaryNote ==
    /\ NoCapHit
    /\ ~DepthLimitApplies(Top.path, Neighbors(graph_data, Top.current_id))
    /\ NoOutgoingEdges(Neighbors(graph_data, Top.current_id), Top.visited)
    /\ BoundaryNoteRaises(graph_data, Top.current_id)
    /\ flow_counter' = flow_counter + 1
    /\ flows_from_this_entry' = flows_from_this_entry + 1
    /\ stack' = Popped
    /\ paths_explored_this_entry' = paths_explored_this_entry + 1
    /\ pc' = "raised"
    /\ UNCHANGED <<graph_data, entry_order, entry_idx, flows, run, first_run_flows>>

\* for neighbor_id in neighbors: push the neighbours not on the path
Expand ==
    /\ NoCapHit
    /\ ~DepthLimitApplies(Top.path, Neighbors(graph_data, Top.current_id))
    /\ ~NoOutgoingEdges(Neighbors(graph_data, Top.current_id), Top.visited)
    /\ stack' = Popped \o
                MapSeq(LAMBDA n : [current_id |-> n,
                                   path |-> Append(Top.path, n),
                                   visited |-> Top.visited \cup {n}],
                       NeighborsToPush(Neighbors(graph_data, Top.current_id), Top.visited))
    /\ paths_explored_this_entry' = paths_explored_this_entry + 1
    /\ UNCHANGED <<graph_data, entry_order, pc, entry_idx, flows, flow_counter,
                   flows_from_this_entry, run, first_run_flows>>

\* enumerate_flows is run again, in a new process, on the same graph document
Rerun ==
    /\ pc = "done"
    /\ run = 1
    /\ run' = 2
    /\ first_run_flows' = flows
    /\ entry_order' \in IterationOrders(entry_points(graph_data))
    /\ pc' = "start"
    /\ entry_idx' = 0
    /\ stack' = <<>>
    /\ flows' = <<>>
    /\ flow_counter' = 0
    /\ flows_from_this_entry' = 0
    /\ paths_explored_this_entry' = 0
    /\ UNCHANGED graph_data

-----------------------------------------------------------------------------
(* Inputs of enumerate_flows *)

\* The nodes of the graph documents: two plain calls, a call of an excluded
\* operation and a boundary call.
FlowNodes ==
    << [id |-> "A", target |-> "b"],
       [id |-> "B", target |-> "c"],
       [id |-> "C", target |-> "util", exclude_from_flows |-> TRUE,
        fixture_callable_id |-> "C7"],
       [id |-> "D", target |-> "open", boundary |-> [kind |-> "filesystem"]] >>

\* The edges a graph document can hold, in the order of the document: a
\* fan-out from A, the cycles A->B->A and A->B->C->A, and chains into D.
CandidateEdges ==
    << <<"A", "D">>, <<"A", "B">>, <<"A", "C">>, <<"B", "A">>,
       <<"B", "C">>, <<"B", "D">>, <<"C", "A">>, <<"C", "D">> >>

\* The entryPoints lists a graph document can hold; Z is the id of no node.
CandidateEntryLists ==
    {<<>>, <<"A">>, <<"B">>, <<"Z">>, <<"A", "B">>, <<"A", "Z">>, <<"B", "Z">>,
     <<"A", "B", "C">>}

EdgeList(chosen) ==
    FlatMap(LAMBDA e : IF e \in chosen THEN <<[from |-> e[1], to |-> e[2]]>> ELSE <<>>,
            CandidateEdges)

GraphDocuments ==
    {[nodes |-> FlowNodes,
      edges |-> EdgeList(chosen),
      classification |-> [entryPoints |-> entries, intermediateSeams |-> <<>>,
                          terminalNodes |-> <<>>]]
        : chosen \in SUBSET Range(CandidateEdges), entries \in CandidateEntryLists}

\* The node a point of stage 3 is written as: the point's own keys, boundary
\* (the descriptor of the call, a mapping with its kind) only when the point
\* has one, excludeFromFlows and fixtureCallableId only when stage 3 set them.
NodeDocumentOf(point) ==
    LET core == [id |-> point.id, sourceUnit |-> point.sourceUnit,
                 sourceCallableId |-> point.sourceCallableId,
                 target |-> point.target, targetResolved |-> point.targetResolved]
        bnd  == IF Truthy(point.boundary)
                THEN [boundary |-> [kind |-> point.boundary]] ELSE <<>>
        excl == IF point.excludeFromFlows
                THEN [excludeFromFlows |-> TRUE,
                      fixtureCallableId |-> point.fixtureCallableId]
                ELSE <<>>
    IN  IF bnd # <<>> /\ excl # <<>> THEN core @@ bnd @@ excl
        ELSE IF bnd # <<>> THEN core @@ bnd
        ELSE IF excl # <<>> THEN core @@ excl
        ELSE core

\* The graph document stage 3 writes for enumerate_flows to read.
GraphDocumentOf(result) ==
    [nodes |-> MapSeq(NodeDocumentOf, result.nodes),
     edges |-> result.edges,
     classification |-> result.classification]

\* A ledger in which the names foo and bar are each indexed once; baz is the
\* name of no ledger entry.
ChainLedger == SubSeq(Ledger(<<>>, <<>>), 1, 3)

\* Point A in foo calls bar; point B in bar calls baz across the filesystem
\* boundary.
ChainPoints ==
    << [id |-> "A", sourceUnit |-> "ua", sourceCallableId |-> "C1",
        target |-> "bar", boundary |-> NONE],
       [id |-> "B", sourceUnit |-> "ua", sourceCallableId |-> "C2",
        target |-> "baz", boundary |-> "filesystem"] >>

\* what stages 2 and 3 hand to enumerate_flows for the points A and B
ChainDocument ==
    GraphDocumentOf(build_integration_graph(ChainPoints,
                                            classify_integration_points(ChainPoints),
                                            ChainLedger))

InitFlows ==
    /\ stage = "graph"
    /\ points = <<>>
    /\ ledger = <<>>
    /\ classification = EmptyClassification
    /\ graph = EmptyGraph
    /\ graph_data \in GraphDocuments \cup {ChainDocument}
    /\ entry_order \in IterationOrders(entry_points(graph_data))
    /\ pc = "start"
    /\ entry_idx = 0
    /\ stack = <<>>
    /\ flows = <<>>
    /\ flow_counter = 0
    /\ flows_from_this_entry = 0
    /\ paths_explored_this_entry = 0
    /\ run = 1
    /\ first_run_flows = <<>>
    /\ ResolveIdle
    /\ WindowsIdle
    /\ analysis = AnalysisIdle

NextFlows ==
    \/ (ReturnEmpty /\ UNCHANGED <<graphVars, resolveVars, windowVars, analysis>>)
    \/ (BeginEntries /\ UNCHANGED <<graphVars, resolveVars, windowVars, analysis>>)
    \/ (EntriesExhausted /\ UNCHANGED <<graphVars, resolveVars, windowVars, analysis>>)
    \/ (SkipUnknownEntry /\ UNCHANGED <<graphVars, resolveVars, windowVars, analysis>>)
    \/ (StopAtTotalCap /\ UNCHANGED <<graphVars, resolveVars, windowVars, analysis>>)
    \/ (BeginEntry /\ UNCHANGED <<graphVars, resolveVars, windowVars, analysis>>)
    \/ (StackEmpty /\ UNCHANGED <<graphVars, resolveVars, windowVars, analysis>>)
    \/ (BreakAtPathsCap /\ UNCHANGED <<graphVars, resolveVars, windowVars, analysis>>)
    \/ (BreakAtEntryFlowsCap /\ UNCHANGED <<graphVars, resolveVars, windowVars, analysis>>)
    \/ (BreakAtTotalCap /\ UNCHANGED <<graphVars, resolveVars, windowVars, analysis>>)
    \/ (EmitDepthLimit /\ UNCHANGED <<graphVars, resolveVars, windowVars, analysis>>)
    \/ (EmitNoOutgoingEdges /\ UNCHANGED <<graphVars, resolveVars, windowVars, analysis>>)
    \/ (RaiseAtBoundaryNote /\ UNCHANGED <<graphVars, resolveVars, windowVars, analysis>>)
    \/ (Expand /\ UNCHANGED <<graphVars, resolveVars, windowVars, analysis>>)

\* one run of enumerate_flows on a graph document
SpecFlows == InitFlows /\ [][NextFlows]_vars

\* one run; the loop keeps running (the interpreter does not stop by itself)
SpecFlowsLive == InitFlows /\ [][NextFlows]_vars /\ WF_vars(NextFlows)

\* two runs on the same graph document
NextRerun ==
    \/ NextFlows
    \/ (Rerun /\ UNCHANGED <<graphVars, resolveVars, windowVars, analysis>>)

SpecRerun == InitFlows /\ [][NextRerun]_vars

-----------------------------------------------------------------------------
(* Stage 6: generate_windows *)

\* the longest flow of the flows documents
MaxFlowLength == 4

\* max_length = 999999 when processing.max_window_length is not set
Unlimited == 999999

\* config.get_max_window_length(), None replaced as generate_windows does:
\* a configured value that is not positive counts as not set
max_window_length(config) ==
    IF config.max_window_length > 0 THEN config.max_window_length ELSE Unlimited

Min(a, b) == IF a <= b THEN a ELSE b

\* load_flows: Flow.from_dict for each flow, GraphNode.from_dict for each item
\* of its sequence
load_flows(data) ==
    MapSeq(LAMBDA f : [flow_id |-> f.flow_id,
                       sequence |-> MapSeq(GraphNode_from_dict, f.sequence)],
           data)

\* The last start offset is left out.
StartOffsetsShort(flow_length, window_size) ==
    [i \in 1..(flow_length - window_size) |-> i - 1]

\* range(flow_length - window_size + 1), in order
StartOffsets(flow_length, window_size) ==
    [i \in 1..(flow_length - window_size + 1) |-> i - 1]

\* The slice stops one node early.
WindowSequenceShort(sequence, start_idx, end_idx) ==
    SubSeq(sequence, start_idx + 1, end_idx - 1)

\* flow.sequence[start_idx:end_idx]
WindowSequence(sequence, start_idx, end_idx) ==
    SubSeq(sequence, start_idx + 1, end_idx)

\* The exit point is taken from the first node of the slice.
MakeWindowExitAtEntry(flow, start_idx, window_size) ==
    LET window_sequence == WindowSequence(flow.sequence, start_idx, start_idx + window_size)
        entry_node == window_sequence[1]
    IN  [window_id       |-> <<"WINDOW", 0>>,
         source_flow_id  |-> flow.flow_id,
         start_position  |-> start_idx,
         length          |-> Len(window_sequence),
         integration_ids |-> MapSeq(LAMBDA node : node.id, window_sequence),
         entry_point     |-> [integration_id |-> entry_node.id,
                              target |-> entry_node.target],
         exit_point      |-> [integration_id |-> entry_node.id,
                              target |-> entry_node.target,
                              is_boundary |-> entry_node.boundary # {}],
         description     |-> MapSeq(LAMBDA node : node.target, window_sequence)]

\* the TestWindow of one start offset, not yet numbered
MakeWindow(flow, start_idx, window_size) ==
    LET window_sequence == WindowSequence(flow.sequence, start_idx, start_idx + window_size)
        entry_node == window_sequence[1]
        exit_node  == window_sequence[Len(window_sequence)]
    IN  [window_id       |-> <<"WINDOW", 0>>,
         source_flow_id  |-> flow.flow_id,
         start_position  |-> start_idx,
         length          |-> Len(window_sequence),
         integration_ids |-> MapSeq(LAMBDA node : node.id, window_sequence),
         entry_point     |-> [integration_id |-> entry_node.id,
                              target |-> entry_node.target],
         exit_point      |-> [integration_id |-> exit_node.id,
                              target |-> exit_node.target,
                              is_boundary |-> exit_node.boundary # {}],
         description     |-> MapSeq(LAMBDA node : node.target, window_sequence)]

\* the windows of one flow: none when the flow is shorter than min_length
WindowsOfFlow(flow, min_length, max_length) ==
    LET flow_length == Len(flow.sequence)
        window_size == Min(max_length, flow_length)
    IN  IF flow_length < min_length THEN <<>>
        ELSE MapSeq(LAMBDA start_idx : MakeWindow(flow, start_idx, window_size),
                    StartOffsets(flow_length, window_size))

\* window_counter += 1 for each window appended: the windows are numbered in
\* the order they are appended
generate_windows(data, config) ==
    LET loaded   == load_flows(data)
        appended == FlatMap(LAMBDA flow : WindowsOfFlow(flow, config.min_window_length,
                                                        max_window_length(config)),
                            loaded)
    IN  [i \in 1..Len(appended) |->
            [appended[i] EXCEPT !.window_id = <<"WINDOW", i>>]]

(* Inputs of generate_windows *)

\* the node documents a flow's sequence is written with
WindowNode(i, at_boundary) ==
    IF at_boundary
    THEN [id |-> IdPool[i], target |-> "open", boundary |-> [kind |-> "filesystem"]]
    ELSE [id |-> IdPool[i], target |-> "call"]

\* the sequence of a flow of the given length, ending at a boundary or not
FlowSequence(length, ends_at_boundary) ==
    [i \in 1..length |-> WindowNode(i, ends_at_boundary /\ i = length)]

FlowSequences ==
    {FlowSequence(length, b) : length \in 1..MaxFlowLength, b \in BOOLEAN}

\* the flows documents: up to two flows, numbered as enumerate_flows numbers them
FlowsDocuments ==
    {<<>>}
    \cup {<<[flow_id |-> <<"FLOW", 1>>, sequence |-> s1]>> : s1 \in FlowSequences}
    \cup {<<[flow_id |-> <<"FLOW", 1>>, sequence |-> s1],
            [flow_id |-> <<"FLOW", 2>>, sequence |-> s2]>> :
              s1 \in FlowSequences, s2 \in FlowSequences}

\* the configurations validate_config accepts: min >= 2, and min <= max when
\* max is set
WindowConfigs ==
    {c \in [min_window_length : 2..3, max_window_length : {0, 2, 3}] :
        c.max_window_length = 0 \/ c.min_window_length <= c.max_window_length}

InitWindows ==
    /\ stage = "graph"
    /\ points = <<>>
    /\ ledger = <<>>
    /\ classification = EmptyClassification
    /\ graph = EmptyGraph
    /\ FlowsIdle
    /\ ResolveIdle
    /\ flows_data \in FlowsDocuments
    /\ window_config \in WindowConfigs
    /\ win_pc = "start"
    /\ windows = <<>>
    /\ analysis = AnalysisIdle

\* windows = generate_windows(flows_data)
GenerateWindows ==
    /\ win_pc = "start"
    /\ windows' = generate_windows(flows_data, window_config)
    /\ win_pc' = "done"
    /\ UNCHANGED <<flows_data, window_config>>
    /\ UNCHANGED <<graphVars, flowVars, resolveVars, analysis>>

NextWindows == GenerateWindows

SpecWindows == InitWindows /\ [][NextWindows]_vars

-----------------------------------------------------------------------------
(* Stage 4: analyze_patterns *)
(* The graph document is read as enumerate_flows reads it: load_graph_nodes, *)
(* the adjacency lists and nodes_by_id are built by the same statements.     *)

\* pattern_analysis.max_depth (40 by default) and
\* pattern_analysis.long_flow_threshold (8 by default), scaled down
pattern_max_depth == 4
long_flow_threshold == 3

\* range(2, 8): the window sizes of extract_subsequences
MinSubsequence == 2
MaxSubsequence == 7

\* terminal_nodes = set(classification.get('terminalNodes', []))
terminal_nodes(data) == Range(data.classification.terminalNodes)

\* counter[key] += 1 for every key of keys, in order; a Counter keeps its keys
\* in the order of their first count
CounterAddAll(counts, keys) ==
    LET times(key) == Cardinality({i \in 1..Len(keys) : keys[i] = key})
        known == {counts[i].pattern : i \in 1..Len(counts)}
        first == {i \in 1..Len(keys) :
                     /\ keys[i] \notin known
                     /\ \A j \in 1..(i - 1) : keys[j] # keys[i]}
    IN  [i \in 1..Len(counts) |->
            [counts[i] EXCEPT !.occurrences = @ + times(counts[i].pattern)]]
        \o FlatMap(LAMBDA i : IF i \in first
                              THEN <<[pattern |-> keys[i], occurrences |-> times(keys[i])]>>
                              ELSE <<>>,
                   [i \in 1..Len(keys) |-> i])

\* extract_subsequences: every window of 2..7 ids of the path is counted, the
\* sizes in increasing order and, for one size, the offsets in increasing order
extract_subsequences(path, subsequence_counts) ==
    LET sizes == [k \in 1..(MaxSubsequence - MinSubsequence + 1) |-> k + MinSubsequence - 1]
        windows_of(window_size) ==
            IF window_size > Len(path) THEN <<>>
            ELSE [i \in 1..(Len(path) - window_size + 1) |->
                     SubSeq(path, i, i + window_size - 1)]
    IN  CounterAddAll(subsequence_counts, FlatMap(windows_of, sizes))

\* is_repeating_cycle: at least three ids, the first equal to the last, and
\* every step an edge of the graph
is_repeating_cycle(data, cycle_path) ==
    /\ Len(cycle_path) >= 3
    /\ cycle_path[1] = cycle_path[Len(cycle_path)]
    /\ \A i \in 1..(Len(cycle_path) - 1) :
          cycle_path[i + 1] \in Range(Neighbors(data, cycle_path[i]))

\* build_cycle_info raises AttributeError at target_resolved.unit_name as soon
\* as an id of the cycle is the id of a node: GraphNode.from_dict leaves
\* target_resolved the dict of the document (or {}), which has no such attribute
BuildCycleInfoRaises(data, cycle_path) ==
    \E i \in 1..Len(cycle_path) : cycle_path[i] \in DOMAIN nodes_by_id(data)

\* The pattern is stored without its closing id.
build_cycle_info_open(cycle_path) ==
    [pattern |-> SubSeq(cycle_path, 1, Len(cycle_path) - 1),
     length |-> Len(cycle_path) - 1, occurrences |-> 1, callables |-> <<>>]

\* build_cycle_info when no id of the cycle is the id of a node: no callables
build_cycle_info(cycle_path) ==
    [pattern |-> cycle_path, length |-> Len(cycle_path), occurrences |-> 1,
     callables |-> <<>>]

\* The cycle is appended without a look at the recorded ones.
RecordCycleAlways(cycle_patterns, cycle_info) == Append(cycle_patterns, cycle_info)

\* cycle_already_recorded and the append that follows it: the first recorded
\* cycle with the same pattern gets one more occurrence, else the cycle is
\* appended
RecordCycle(cycle_patterns, cycle_info) ==
    LET same == {i \in 1..Len(cycle_patterns) :
                    cycle_patterns[i].pattern = cycle_info.pattern}
    IN  IF same = {} THEN Append(cycle_patterns, cycle_info)
        ELSE LET first == CHOOSE i \in same : \A j \in same : i <= j
             IN  [cycle_patterns EXCEPT ![first].occurrences = @ + 1]

\* for prev_idx in previous_positions: the cycle paths that pass
\* is_repeating_cycle, in the order of the positions
RepeatingCycles(data, path, neighbor_id, previous_positions) ==
    FlatMap(LAMBDA prev_idx :
                LET cycle_path == SubSeq(path, prev_idx + 1, Len(path)) \o <<neighbor_id>>
                IN  IF is_repeating_cycle(data, cycle_path) THEN <<cycle_path>> ELSE <<>>,
            previous_positions)

\* The neighbour loop from the given neighbour on. acc holds the stack and
\* cycle_patterns as the loop has left them so far. A neighbour already on the
\* path closes a cycle: the first repeating one is built and recorded and the
\* loop breaks; any other neighbour is pushed with its position on the path.
RECURSIVE ExploreNeighbors(_, _, _, _, _)
ExploreNeighbors(data, neighbors, path, visited_indices, acc) ==
    IF neighbors = <<>> THEN acc
    ELSE LET neighbor_id == Head(neighbors)
         IN  IF neighbor_id \in DOMAIN visited_indices
             THEN LET cycles == RepeatingCycles(data, path, neighbor_id,
                                                visited_indices[neighbor_id])
                  IN  IF cycles = <<>>
                      THEN ExploreNeighbors(data, Tail(neighbors), path, visited_indices, acc)
                      ELSE IF BuildCycleInfoRaises(data, cycles[1])
                      THEN [acc EXCEPT !.raised = TRUE]
                      ELSE [acc EXCEPT !.cycle_patterns =
                                           RecordCycle(@, build_cycle_info(cycles[1]))]
             ELSE ExploreNeighbors(data, Tail(neighbors), path, visited_indices,
                      [acc EXCEPT !.stack =
                          Append(@, [current_id |-> neighbor_id,
                                     path |-> Append(path, neighbor_id),
                                     visited_indices |->
                                         visited_indices @@ (neighbor_id :> <<Len(path)>>)])])

\* sorted(cycle_patterns, key=occurrences, reverse=True): a stable sort
RECURSIVE SortedCycles(_)
SortedCycles(cycle_patterns) ==
    IF cycle_patterns = <<>> THEN <<>>
    ELSE LET most  == CHOOSE i \in 1..Len(cycle_patterns) :
                         \A j \in 1..Len(cycle_patterns) :
                            \/ cycle_patterns[j].occurrences < cycle_patterns[i].occurrences
                            \/ cycle_patterns[j].occurrences = cycle_patterns[i].occurrences
                               /\ i <= j
             rest  == [k \in 1..(Len(cycle_patterns) - 1) |->
                          IF k < most THEN cycle_patterns[k] ELSE cycle_patterns[k + 1]]
         IN  <<cycle_patterns[most]>> \o SortedCycles(rest)

\* subsequence_counts.most_common(): by count, the largest first, ties in the
\* order of their first count
most_common(subsequence_counts) == SortedCycles(subsequence_counts)

\* the position of the analysis in its entry list, and the popped state
AnalysisEntry == analysis.entry_order[analysis.entry_idx]
AnalysisTop == analysis.stack[Len(analysis.stack)]
AnalysisPopped == SubSeq(analysis.stack, 1, Len(analysis.stack) - 1)

\* if not nodes_list or not entry_points: return the empty result
AnalyzeReturnEmpty ==
    /\ analysis.pc = "start"
    /\ load_graph_nodes(analysis.graph_data) = <<>> \/ entry_points(analysis.graph_data) = {}
    /\ analysis' = [analysis EXCEPT !.pc = "done"]

\* the for loop over the entry points begins
AnalyzeBeginEntries ==
    /\ analysis.pc = "start"
    /\ load_graph_nodes(analysis.graph_data) # <<>> /\ entry_points(analysis.graph_data) # {}
    /\ analysis' = [analysis EXCEPT !.pc = "for", !.entry_idx = 1]

\* build_analysis_results raises AttributeError at target_resolved.unit_name
\* as soon as an id of a counted subsequence is the id of a node
BuildResultsRaises(data, subsequence_counts) ==
    \E i \in 1..Len(subsequence_counts) :
        \E k \in 1..Len(subsequence_counts[i].pattern) :
            subsequence_counts[i].pattern[k] \in DOMAIN nodes_by_id(data)

\* the for loop has visited every entry point: build_analysis_results sorts the
\* subsequences and the cycles by their occurrences
AnalyzeEntriesExhausted ==
    /\ analysis.pc = "for"
    /\ analysis.entry_idx > Len(analysis.entry_order)
    /\ ~BuildResultsRaises(analysis.graph_data, analysis.subsequence_counts)
    /\ analysis' = [analysis EXCEPT !.pc = "done",
                                    !.subsequence_counts = most_common(@),
                                    !.cycle_patterns = SortedCycles(@)]

\* the for loop has visited every entry point and build_analysis_results ends
\* in its AttributeError: analyze_patterns returns no result
AnalyzeRaiseInBuildResults ==
    /\ analysis.pc = "for"
    /\ analysis.entry_idx > Len(analysis.entry_order)
    /\ BuildResultsRaises(analysis.graph_data, analysis.subsequence_counts)
    /\ analysis' = [analysis EXCEPT !.pc = "raised"]

\* if entry_id not in nodes_by_id: continue
AnalyzeSkipUnknownEntry ==
    /\ analysis.pc = "for"
    /\ analysis.entry_idx <= Len(analysis.entry_order)
    /\ AnalysisEntry \notin DOMAIN nodes_by_id(analysis.graph_data)
    /\ analysis' = [analysis EXCEPT !.entry_idx = @ + 1]

\* stack = [(entry_id, [entry_id], {entry_id: [0]})]
AnalyzeBeginEntry ==
    /\ analysis.pc = "for"
    /\ analysis.entry_idx <= Len(analysis.entry_order)
    /\ AnalysisEntry \in DOMAIN nodes_by_id(analysis.graph_data)
    /\ analysis' = [analysis EXCEPT
                       !.pc = "while",
                       !.stack = <<[current_id |-> AnalysisEntry,
                                    path |-> <<AnalysisEntry>>,
                                    visited_indices |-> (AnalysisEntry :> <<0>>)]>>]

\* while stack: the stack is empty, the for loop moves on
AnalyzeStackEmpty ==
    /\ analysis.pc = "while"
    /\ analysis.stack = <<>>
    /\ analysis' = [analysis EXCEPT !.pc = "for", !.entry_idx = @ + 1]

\* the popped path is a complete flow: it is counted and, when long, its
\* subsequences are extracted
CountFlow ==
    analysis' = [analysis EXCEPT
                    !.stack = AnalysisPopped,
                    !.total_paths_explored = @ + 1,
                    !.flows_analyzed = @ + 1,
                    !.flow_lengths = Append(@, Len(AnalysisTop.path)),
                    !.long_flows_count =
                        IF Len(AnalysisTop.path) >= long_flow_threshold THEN @ + 1 ELSE @,
                    !.subsequence_counts =
                        IF Len(AnalysisTop.path) >= long_flow_threshold
                        THEN extract_subsequences(AnalysisTop.path, @)
                        ELSE @]

\* The test for a terminal node left out.
NeverAtTerminalNode == FALSE

\* if current_id in terminal_nodes
AtTerminalNode == AnalysisTop.current_id \in terminal_nodes(analysis.graph_data)

AtExcludedNode ==
    /\ AnalysisTop.current_id \in DOMAIN nodes_by_id(analysis.graph_data)
    /\ nodes_by_id(analysis.graph_data)[AnalysisTop.current_id].exclude_from_flows

\* if current_id in terminal_nodes
AnalyzeFlowAtTerminal ==
    /\ analysis.pc = "while"
    /\ analysis.stack # <<>>
    /\ AtTerminalNode
    /\ CountFlow

\* if current_node and current_node.exclude_from_flows
AnalyzeFlowAtExcluded ==
    /\ analysis.pc = "while"
    /\ analysis.stack # <<>>
    /\ ~AtTerminalNode
    /\ AtExcludedNode
    /\ CountFlow

\* if len(path) >= max_depth
AnalyzeFlowAtDepthLimit ==
    /\ analysis.pc = "while"
    /\ analysis.stack # <<>>
    /\ ~AtTerminalNode
    /\ ~AtExcludedNode
    /\ Len(AnalysisTop.path) >= pattern_max_depth
    /\ CountFlow

\* what the neighbour loop leaves of the popped state
Explored ==
    ExploreNeighbors(analysis.graph_data,
                     Neighbors(analysis.graph_data, AnalysisTop.current_id),
                     AnalysisTop.path, AnalysisTop.visited_indices,
                     [stack |-> AnalysisPopped,
                      cycle_patterns |-> analysis.cycle_patterns,
                      raised |-> FALSE])

\* the neighbour loop runs to its end or to its break
AnalyzeExplore ==
    /\ analysis.pc = "while"
    /\ analysis.stack # <<>>
    /\ ~AtTerminalNode
    /\ ~AtExcludedNode
    /\ Len(AnalysisTop.path) < pattern_max_depth
    /\ ~Explored.raised
    /\ analysis' = [analysis EXCEPT
                       !.stack = Explored.stack,
                       !.cycle_patterns = Explored.cycle_patterns,
                       !.total_paths_explored = @ + 1]

\* the neighbour loop ends in the AttributeError of build_cycle_info, which
\* nothing catches: analyze_patterns returns no result
AnalyzeRaiseInBuildCycleInfo ==
    /\ analysis.pc = "while"
    /\ analysis.stack # <<>>
    /\ ~AtTerminalNode
    /\ ~AtExcludedNode
    /\ Len(AnalysisTop.path) < pattern_max_depth
    /\ Explored.raised
    /\ analysis' = [analysis EXCEPT
                       !.pc = "raised",
                       !.stack = Explored.stack,
                       !.total_paths_explored = @ + 1]

(* Inputs of analyze_patterns *)

\* The edges a graph document can hold for the analysis: the chain A->B->C,
\* the self-call A->A, the cycle A->B->A, and edges through Y and Z, which are
\* the ids of no node: the cycle Z->Y->Z, reached from A and from B, and the
\* way out of it to D.
AnalysisCandidateEdges ==
    << <<"A", "A">>, <<"A", "B">>, <<"B", "C">>, <<"B", "A">>,
       <<"A", "Z">>, <<"B", "Z">>, <<"Z", "Y">>, <<"Y", "D">>, <<"Y", "Z">> >>

AnalysisEdgeList(chosen) ==
    FlatMap(LAMBDA e : IF e \in chosen THEN <<[from |-> e[1], to |-> e[2]]>> ELSE <<>>,
            AnalysisCandidateEdges)

AnalysisEntryLists == {<<>>, <<"A">>, <<"A", "B">>, <<"A", "Z">>}

AnalysisTerminalLists == {<<>>, <<"D">>, <<"B", "D">>}

AnalysisDocuments ==
    {[nodes |-> FlowNodes,
      edges |-> AnalysisEdgeList(chosen),
      classification |-> [entryPoints |-> entries, intermediateSeams |-> <<>>,
                          terminalNodes |-> terminals]]
        : chosen \in SUBSET Range(AnalysisCandidateEdges),
          entries \in AnalysisEntryLists, terminals \in AnalysisTerminalLists}

\* A ledger in which foo, bar and baz are each indexed once.
CycleLedger ==
    ChainLedger \o
    << [unit |-> "ua", kind |-> "callable", id |-> "C3", name |-> "baz",
        parent_class |-> "", decorators |-> <<>>] >>

\* Point A in foo calls bar, B in bar calls baz, C in baz calls foo.
CyclePoints ==
    << [id |-> "A", sourceUnit |-> "ua", sourceCallableId |-> "C1",
        target |-> "bar", boundary |-> NONE],
       [id |-> "B", sourceUnit |-> "ua", sourceCallableId |-> "C2",
        target |-> "baz", boundary |-> NONE],
       [id |-> "C", sourceUnit |-> "ua", sourceCallableId |-> "C3",
        target |-> "foo", boundary |-> NONE] >>

\* what stages 2 and 3 hand to analyze_patterns for the points A, B and C
CycleDocument ==
    GraphDocumentOf(build_integration_graph(CyclePoints,
                                            classify_integration_points(CyclePoints),
                                            CycleLedger))

InitPatterns ==
    /\ stage = "graph"
    /\ points = <<>>
    /\ ledger = <<>>
    /\ classification = EmptyClassification
    /\ graph = EmptyGraph
    /\ FlowsIdle
    /\ ResolveIdle
    /\ flows_data = <<>>
    /\ window_config = [min_window_length |-> 2, max_window_length |-> 0]
    /\ win_pc = "idle"
    /\ windows = <<>>
    /\ \E data \in AnalysisDocuments \cup {CycleDocument} :
          \E order \in IterationOrders(entry_points(data)) :
             analysis = [AnalysisIdle EXCEPT !.pc = "start", !.graph_data = data,
                                             !.entry_order = order]

NextPatterns ==
    \/ (AnalyzeReturnEmpty /\ UNCHANGED <<graphVars, flowVars, resolveVars, windowVars>>)
    \/ (AnalyzeBeginEntries /\ UNCHANGED <<graphVars, flowVars, resolveVars, windowVars>>)
    \/ (AnalyzeEntriesExhausted /\ UNCHANGED <<graphVars, flowVars, resolveVars, windowVars>>)
    \/ (AnalyzeRaiseInBuildResults /\ UNCHANGED <<graphVars, flowVars, resolveVars, windowVars>>)
    \/ (AnalyzeSkipUnknownEntry /\ UNCHANGED <<graphVars, flowVars, resolveVars, windowVars>>)
    \/ (AnalyzeBeginEntry /\ UNCHANGED <<graphVars, flowVars, resolveVars, windowVars>>)
    \/ (AnalyzeStackEmpty /\ UNCHANGED <<graphVars, flowVars, resolveVars, windowVars>>)
    \/ (AnalyzeFlowAtTerminal /\ UNCHANGED <<graphVars, flowVars, resolveVars, windowVars>>)
    \/ (AnalyzeFlowAtExcluded /\ UNCHANGED <<graphVars, flowVars, resolveVars, windowVars>>)
    \/ (AnalyzeFlowAtDepthLimit /\ UNCHANGED <<graphVars, flowVars, resolveVars, windowVars>>)
    \/ (AnalyzeExplore /\ UNCHANGED <<graphVars, flowVars, resolveVars, windowVars>>)
    \/ (AnalyzeRaiseInBuildCycleInfo /\ UNCHANGED <<graphVars, flowVars, resolveVars, windowVars>>)

\* one run of analyze_patterns on a graph document
SpecPatterns == InitPatterns /\ [][NextPatterns]_vars

\* the runs on the graph documents of at most three edges
InitPatternsLive ==
    /\ InitPatterns
    /\ Len(analysis.graph_data.edges) <= 3
    /\ analysis.graph_data.classification.terminalNodes \in {<<>>, <<"B", "D">>}

\* such a run, which is not suspended for ever: analyze_patterns is a
\* sequential loop of one process
SpecPatternsLive == InitPatternsLive /\ [][NextPatterns]_vars /\ WF_vars(NextPatterns)

-----------------------------------------------------------------------------
(* extract_leder_integrations: _normalize_target *)

\* A text is held as the sequence of its tokens: words and the separators ".",
\* "::" and "@". The empty sequence is the empty text, and None.

\* the words of the texts below that _ENTRY_ID_RE matches
EntryIdShaped == {"C000", "C001", "C000F001", "C000F002", "C001F001", "C001F002"}

\* _ENTRY_ID_RE.search(raw_s): the leftmost match, or None
EntryIdIn(raw_s) ==
    LET hits == {i \in 1..Len(raw_s) : raw_s[i] \in EntryIdShaped}
    IN  IF hits = {} THEN NONE
        ELSE raw_s[CHOOSE i \in hits : \A j \in hits : i <= j]

\* the position of the first occurrence of a token, 0 when there is none
Find(text, token) ==
    LET hits == {i \in 1..Len(text) : text[i] = token}
    IN  IF hits = {} THEN 0 ELSE CHOOSE i \in hits : \A j \in hits : i <= j

\* _address_local_path: the text between the first "::" and the first "@"
address_local_path(addr) ==
    IF Find(addr, "::") = 0 THEN <<>>
    ELSE LET rest == SubSeq(addr, Find(addr, "::") + 1, Len(addr))
         IN  IF Find(rest, "@") = 0 THEN rest
             ELSE SubSeq(rest, 1, Find(rest, "@") - 1)

\* a dict of lists filled by setdefault(key, []).append(r), for the records
\* with a non-empty key
IndexBy(Key(_), records) ==
    [k \in {Key(r) : r \in {x \in Range(records) : Key(x) # <<>>}} |->
        SelectSeq(records, LAMBDA r : Key(r) = k)]

QualifiedKey(r) ==
    IF address_local_path(r.address) # <<>> /\ r.unitName # <<>>
    THEN r.unitName \o <<".">> \o address_local_path(r.address)
    ELSE <<>>

build_global_entry_index(records) ==
    [byEntryId   |-> IndexBy(LAMBDA r : IF Truthy(r.entryId) THEN <<r.entryId>> ELSE <<>>,
                             records),
     byAddress   |-> IndexBy(LAMBDA r : r.address, records),
     byName      |-> IndexBy(LAMBDA r : r.name, records),
     byQualified |-> IndexBy(QualifiedKey, records),
     byLocalPath |-> IndexBy(LAMBDA r : address_local_path(r.address), records)]

\* _safe_list(d.get(key))
Lookup(d, key) == IF key \in DOMAIN d THEN d[key] ELSE <<>>

resolved(cand) ==
    [status |-> "resolved", note |-> "", record |-> <<cand>>, candidates |-> <<>>]
ambiguous(note, candidates) ==
    [status |-> "ambiguous", note |-> note, record |-> <<>>, candidates |-> candidates]
unresolved(note) ==
    [status |-> "unresolved", note |-> note, record |-> <<>>, candidates |-> <<>>]
NoDecision ==
    [status |-> "next step", note |-> "", record |-> <<>>, candidates |-> <<>>]

\* the candidates of the calling unit
SameUnit(candidates, from_unit_id) ==
    SelectSeq(candidates, LAMBDA c : c.unitId = from_unit_id)

\* The step returns on one candidate, else on one candidate of the calling
\* unit, else on several candidates; with none the next step is tried.
DecideNarrowing(candidates, from_unit_id, note) ==
    IF Len(candidates) = 1 THEN resolved(candidates[1])
    ELSE IF /\ Len(candidates) > 1
            /\ Truthy(from_unit_id)
            /\ Len(SameUnit(candidates, from_unit_id)) = 1
         THEN resolved(SameUnit(candidates, from_unit_id)[1])
    ELSE IF Len(candidates) > 1 THEN ambiguous(note, candidates)
    ELSE NoDecision

\* The address step: one candidate, else several candidates, with no look at
\* the calling unit.
DecideAddress(candidates, from_unit_id, note) ==
    IF Len(candidates) = 1 THEN resolved(candidates[1])
    ELSE IF Len(candidates) > 1 THEN ambiguous(note, candidates)
    ELSE NoDecision

\* raw_s.startswith(from_unit_name + ".")
StartsWithUnit(raw_s, from_unit_name) ==
    /\ from_unit_name # <<>>
    /\ IsPrefix(from_unit_name \o <<".">>, raw_s)

\* the candidates each of the five steps looks up, empty where the step's
\* condition does not let it run
StepCandidates(step, raw_s, index, from_unit_name) ==
    CASE step = 1 -> IF EntryIdIn(raw_s) = NONE THEN <<>>
                     ELSE Lookup(index.byEntryId, <<EntryIdIn(raw_s)>>)
      [] step = 2 -> Lookup(index.byAddress, raw_s)
      [] step = 3 -> Lookup(index.byQualified, raw_s)
      [] step = 4 -> IF StartsWithUnit(raw_s, from_unit_name)
                     THEN Lookup(index.byLocalPath,
                                 SubSeq(raw_s, Len(from_unit_name) + 2, Len(raw_s)))
                     ELSE <<>>
      [] step = 5 -> IF Find(raw_s, ".") = 0 /\ Find(raw_s, "::") = 0
                     THEN Lookup(index.byName, raw_s)
                     ELSE <<>>

normalize_target(raw_s, index, from_unit_id, from_unit_name) ==
    LET cands(step) == StepCandidates(step, raw_s, index, from_unit_name)
        d1 == DecideNarrowing(cands(1), from_unit_id, "EntryId matched multiple records")
        d2 == DecideAddress(cands(2), from_unit_id, "address matched multiple records")
        d3 == DecideNarrowing(cands(3), from_unit_id,
                              "qualified name matched multiple records")
        d4 == DecideNarrowing(cands(4), from_unit_id, "local path matched multiple records")
        d5 == DecideNarrowing(cands(5), from_unit_id, "name matched multiple records")
    IN  IF raw_s = <<>>
        THEN [status |-> "None", note |-> "", record |-> <<>>, candidates |-> <<>>]
        ELSE IF EntryIdIn(raw_s) # NONE
        THEN IF d1 # NoDecision THEN d1 ELSE unresolved("EntryId not present in index")
        ELSE IF d2 # NoDecision THEN d2
        ELSE IF d3 # NoDecision THEN d3
        ELSE IF d4 # NoDecision THEN d4
        ELSE IF d5 # NoDecision THEN d5
        ELSE unresolved("no deterministic match")

(* Inputs of _normalize_target *)

UnitA == [id |-> "C000", name |-> <<"ua">>]
UnitB == [id |-> "C001", name |-> <<"ub">>]

IndexRecordOf(unit, entry_id, name, address) ==
    [unitId |-> unit.id, unitName |-> unit.name, entryId |-> entry_id,
     name |-> name, address |-> address]

\* The records an index can hold: foo in both units, K.baz in both units under
\* one address, an entry id used in both units, and the entry of unit ua.
CandidateRecords ==
    << IndexRecordOf(UnitA, "C000", <<"ua">>, <<>>),
       IndexRecordOf(UnitA, "C000F001", <<"foo">>, <<"C000", "::", "foo", "@", "L1">>),
       IndexRecordOf(UnitA, "C000F002", <<"baz">>, <<"m", "::", "K", ".", "baz">>),
       IndexRecordOf(UnitB, "C000F001", <<"qux">>, <<>>),
       IndexRecordOf(UnitB, "C001F001", <<"foo">>, <<"C001", "::", "foo", "@", "L1">>),
       IndexRecordOf(UnitB, "C001F002", <<"baz">>, <<"m", "::", "K", ".", "baz">>) >>

RecordLists ==
    {SelectSeq(CandidateRecords, LAMBDA r : r \in chosen) :
        chosen \in SUBSET Range(CandidateRecords)}

RawTargets ==
    { <<>>, <<"C000F001">>, <<"C000", "::", "foo", "@", "L1">>,
      <<"m", "::", "K", ".", "baz">>, <<"ua", ".", "foo">>,
      <<"ua", ".", "K", ".", "baz">>, <<"foo">>, <<"baz">>, <<"nope">> }

InitResolve ==
    /\ stage = "graph"
    /\ points = <<>>
    /\ ledger = <<>>
    /\ classification = EmptyClassification
    /\ graph = EmptyGraph
    /\ FlowsIdle
    /\ unit_records \in RecordLists
    /\ raw_target \in RawTargets
    /\ from_unit \in {UnitA, UnitB, [id |-> NONE, name |-> <<>>]}
    /\ target_ref = [status |-> "not called", note |-> "", record |-> <<>>,
                     candidates |-> <<>>]
    /\ WindowsIdle
    /\ analysis = AnalysisIdle

\* f["targetRef"] = _normalize_target(raw_target, global_index, ...)
NormalizeTarget ==
    /\ target_ref.status = "not called"
    /\ target_ref' = normalize_target(raw_target, build_global_entry_index(unit_records),
                                      from_unit.id, from_unit.name)
    /\ UNCHANGED <<unit_records, raw_target, from_unit>>
    /\ UNCHANGED <<graphVars, flowVars, windowVars, analysis>>

NextResolve == NormalizeTarget

SpecResolve == InitResolve /\ [][NextResolve]_vars

-----------------------------------------------------------------------------
(* Claims about stages 2 and 3 *)

PointIds == {p.id : p \in Range(points)}

NoDuplicates(seq) == \A i, j \in 1..Len(seq) : seq[i] = seq[j] => i = j

\* the node of the graph with the id
NodeOf(id) == CHOOSE n \in Range(graph.nodes) : n.id = id

\* the identity a node's target resolved to, and the identity of its source
TargetIdentity(n) == <<n.targetResolved.unitName, n.targetResolved.callableId>>
SourceIdentity(n) == <<n.sourceUnit, n.sourceCallableId>>

\* the number of edges from one id to another
EdgeCount(from, to) ==
    Cardinality({i \in 1..Len(graph.edges) :
                    graph.edges[i].from = from /\ graph.edges[i].to = to})

RECURSIVE SumOver(_, _)
SumOver(Op(_), set) ==
    IF set = {} THEN 0
    ELSE LET x == CHOOSE y \in set : TRUE IN Op(x) + SumOver(Op, set \ {x})

C2_EdgesFollowResolvedIdentity ==
    stage = "graph" =>
        /\ \A i \in 1..Len(graph.edges) :
              LET u == NodeOf(graph.edges[i].from)
                  v == NodeOf(graph.edges[i].to)
              IN  /\ u.targetResolved.status = "resolved"
                  /\ TargetIdentity(u) = SourceIdentity(v)
        /\ \A n \in Range(graph.nodes) :
              n.targetResolved.status \in {"unresolved", "ambiguous"} =>
                  \A i \in 1..Len(graph.edges) : graph.edges[i].from # n.id

\* a graph with an edge, a node of the same callable id in the other unit, and
\* a node whose bare-name target is ambiguous between the two units
C2_Witness ==
    /\ stage = "graph"
    /\ graph.edges # <<>>
    /\ \E n \in Range(graph.nodes) :
          /\ n.targetResolved.status = "ambiguous"
          /\ Len(n.targetResolved.matches) = 2
    /\ \E u, v \in Range(graph.nodes) :
          /\ u.targetResolved.status = "resolved"
          /\ u.targetResolved.callableId = v.sourceCallableId
          /\ u.targetResolved.unitName # v.sourceUnit

\* C3: for every node u with a resolved target and every node v whose source
\* identity is that target there is exactly one edge u -> v (u = v included),
\* and the number of edges is the sum, over the resolved nodes, of the number
\* of nodes whose source is their target.
C3_EdgesComplete ==
    stage = "graph" =>
        LET Resolved == {n \in Range(graph.nodes) : n.targetResolved.status = "resolved"}
            Bucket(u) == {v \in Range(graph.nodes) : SourceIdentity(v) = TargetIdentity(u)}
        IN  /\ \A u \in Resolved : \A v \in Bucket(u) : EdgeCount(u.id, v.id) = 1
            /\ Len(graph.edges) = SumOver(LAMBDA u : Cardinality(Bucket(u)), Resolved)

\* a graph with a self-call edge and a resolved node whose bucket holds two nodes
C3_Witness ==
    /\ stage = "graph"
    /\ \E i \in 1..Len(graph.edges) : graph.edges[i].from = graph.edges[i].to
    /\ \E u \in Range(graph.nodes) :
          /\ u.targetResolved.status = "resolved"
          /\ Cardinality({v \in Range(graph.nodes) :
                             SourceIdentity(v) = TargetIdentity(u)}) >= 2

\* C10: in the built graph a node marked excluded and a node with a boundary
\* descriptor are the from of no edge.
C10_ExcludedAndBoundaryHaveNoOutEdges ==
    stage = "graph" =>
        \A n \in Range(graph.nodes) :
            (n.excludeFromFlows \/ Truthy(n.boundary)) =>
                \A i \in 1..Len(graph.edges) : graph.edges[i].from # n.id

\* C11: in the graph document every node with a boundary descriptor and every
\* node marked excluded is in terminalNodes, and in neither other list.
C11_BoundaryAndExcludedAreTerminal ==
    stage = "graph" =>
        \A n \in Range(graph.nodes) :
            (n.excludeFromFlows \/ Truthy(n.boundary)) =>
                /\ n.id \in Range(graph.classification.terminalNodes)
                /\ n.id \notin Range(graph.classification.entryPoints)
                /\ n.id \notin Range(graph.classification.intermediateSeams)

\* a node's target resolved to a callable that some point has as its source
TargetHasOutgoing(n) ==
    /\ n.targetResolved.status = "resolved"
    /\ \E v \in Range(graph.nodes) : SourceIdentity(v) = TargetIdentity(n)

\* some point's resolved target is the callable the node's call is made from
SourceHasIncoming(n) ==
    \E u \in Range(graph.nodes) :
        u.targetResolved.status = "resolved" /\ TargetIdentity(u) = SourceIdentity(n)

\* C12: a node that is neither boundary nor excluded is an entry point exactly
\* when no point's resolved target identity is the node's source identity, and
\* a non-entry node is intermediate exactly when its resolved target is the
\* source of some point.
C12_ClassificationUsesResolvedIdentity ==
    stage = "graph" =>
        \A n \in Range(graph.nodes) :
            (~n.excludeFromFlows /\ ~Truthy(n.boundary)) =>
                /\ n.id \in Range(graph.classification.entryPoints)
                      <=> ~SourceHasIncoming(n)
                /\ n.id \notin Range(graph.classification.entryPoints) =>
                      (n.id \in Range(graph.classification.intermediateSeams)
                          <=> TargetHasOutgoing(n))

\* C13: every node whose target is unresolved is in terminalNodes.
C13_UnresolvedIsTerminal ==
    stage = "graph" =>
        \A n \in Range(graph.nodes) :
            n.targetResolved.status = "unresolved" =>
                n.id \in Range(graph.classification.terminalNodes)

-----------------------------------------------------------------------------
(* Claims about _normalize_target *)

\* the candidates a step finds for the call at hand
CandidatesOfStep(step) ==
    StepCandidates(step, raw_target, build_global_entry_index(unit_records),
                   from_unit.name)

\* the first of the five steps that finds a candidate, 0 when none does
FirstMatchingStep ==
    LET matching == {step \in 1..5 : CandidatesOfStep(step) # <<>>}
    IN  IF matching = {} THEN 0
        ELSE CHOOSE step \in matching : \A other \in matching : step <= other

\* C14: the steps are tried in the order id, address, qualified name, local
\* path, bare name, and the first step that finds a candidate decides: the
\* result is Resolved to one of that step's candidates or Ambiguous with that
\* step's candidates.
C14_FirstMatchingStepDecides ==
    (target_ref.status \notin {"not called", "None"} /\ FirstMatchingStep # 0) =>
        \/ /\ target_ref.status = "resolved"
           /\ target_ref.record[1] \in Range(CandidatesOfStep(FirstMatchingStep))
        \/ /\ target_ref.status = "ambiguous"
           /\ target_ref.candidates = CandidatesOfStep(FirstMatchingStep)

\* C15: Ambiguous is returned only when the calling unit does not hold exactly
\* one of the candidates.
C15_AmbiguousOnlyAfterNarrowing ==
    target_ref.status = "ambiguous" =>
        ~(/\ Truthy(from_unit.id)
          /\ Len(SameUnit(target_ref.candidates, from_unit.id)) = 1)

\* C26: Unresolved is returned only when none of the five steps finds a
\* candidate, also for a raw target that holds an id-shaped token which is not
\* in the id index.
C26_UnresolvedOnlyWhenNoStepMatches ==
    target_ref.status = "unresolved" =>
        \A step \in 1..5 : CandidatesOfStep(step) = <<>>

-----------------------------------------------------------------------------
(* Claims about stage 5 *)

\* the from ids of the graph document's edge set
EdgeSources == {graph_data.edges[i].from : i \in 1..Len(graph_data.edges)}

HasEdge(from, to) ==
    \E i \in 1..Len(graph_data.edges) :
        graph_data.edges[i].from = from /\ graph_data.edges[i].to = to

LastNode(flow) == flow.sequence[Len(flow.sequence)]

\* C4: no flow recorded by enumerate_flows holds the same node id twice, and no
\* state on the work stack holds a node twice on its path, whatever the graph.
C4_NoFlowRepeatsANode ==
    /\ \A i \in 1..Len(flows) : NoDuplicates(flows[i].sequence)
    /\ \A i \in 1..Len(stack) :
          /\ NoDuplicates(stack[i].path)
          /\ Range(stack[i].path) = stack[i].visited

\* a flow was recorded along a branch where a node has an edge back to an
\* earlier node of the same path
C4_Witness ==
    \E i \in 1..Len(flows) :
        \E j, k \in 1..Len(flows[i].sequence) :
            j < k /\ HasEdge(flows[i].sequence[k], flows[i].sequence[j])

\* C5: a flow whose termination reason is no_outgoing_edges ends at a node that
\* is the from of no edge of the graph document.
C5_NoOutgoingEdgesMeansNoOutEdge ==
    \A i \in 1..Len(flows) :
        flows[i].termination.reason = "no_outgoing_edges" =>
            /\ LastNode(flows[i]) = flows[i].termination.integration_id
            /\ LastNode(flows[i]) \notin EdgeSources

\* the search from A has ended with the flow A, C recorded for the leaf C,
\* after it popped the path A, B, whose last node has the one out-edge B->A
C5_Witness ==
    /\ graph_data.edges = EdgeList({<<"A", "B">>, <<"A", "C">>, <<"B", "A">>})
    /\ entry_order = <<"A">>
    /\ pc = "done"
    /\ \E i \in 1..Len(flows) :
          /\ flows[i].termination.reason = "no_outgoing_edges"
          /\ flows[i].sequence = <<"A", "C">>

\* C6: every run of enumerate_flows ends, on cyclic graphs too: it returns its
\* flows or leaves with the exception raised at a boundary leaf.
C6_EnumerateFlowsTerminates == <>(pc \in {"done", "raised"})

\* the run on a graph holding the cycle A->B->C->A, entered at A, ended after
\* the search went round the cycle
C6_Witness ==
    /\ pc = "done"
    /\ HasEdge("A", "B") /\ HasEdge("B", "C") /\ HasEdge("C", "A")
    /\ entry_order = <<"A">>
    /\ paths_explored_this_entry >= 3

\* C7: a second run on the same graph document returns the list of flows the
\* first run returned.
C7_RerunReturnsTheSameFlows ==
    (run = 2 /\ pc = "done") => flows = first_run_flows

\* the flows one entry point has contributed so far
FlowsFrom(entry_id) ==
    Cardinality({i \in 1..Len(flows) : flows[i].entry_point.integration_id = entry_id})

\* C8: the three caps are never exceeded; a per-entry cap sends control back to
\* the for loop at the next entry point, whose search then begins unless the
\* entry is unknown or the total cap is reached.
C8_CapsNeverExceeded ==
    /\ [](/\ flows_from_this_entry <= max_flows_per_entry
          /\ \A i \in 1..Len(entry_order) : FlowsFrom(entry_order[i]) <= max_flows_per_entry
          /\ flow_counter <= max_flows_total
          /\ Len(flows) <= max_flows_total
          /\ paths_explored_this_entry <= max_paths_per_entry)
    /\ [][(/\ pc = "while"
           /\ stack # <<>>
           /\ \/ paths_explored_this_entry + 1 >= max_paths_per_entry
              \/ flows_from_this_entry >= max_flows_per_entry)
          => (pc' = "for" /\ entry_idx' = entry_idx + 1 /\ flows' = flows)]_vars
    /\ [][(/\ pc = "for"
           /\ entry_idx <= Len(entry_order)
           /\ entry_order[entry_idx] \in {FlowNodes[i].id : i \in 1..Len(FlowNodes)}
           /\ flow_counter < max_flows_total)
          => (/\ pc' = "while"
              /\ Len(stack') = 1
              /\ stack'[1].current_id = entry_order[entry_idx])]_vars

\* A has three leaves below it, so its search was cut at two flows with D left
\* on the stack, and the third flow comes from the entry point after it
C8_Witness ==
    /\ graph_data.edges = EdgeList({<<"A", "D">>, <<"A", "B">>, <<"A", "C">>})
    /\ entry_order = <<"A", "B">>
    /\ Len(flows) = 3
    /\ flows[1].entry_point.integration_id = "A"
    /\ flows[2].entry_point.integration_id = "A"
    /\ flows[3].entry_point.integration_id = "B"

\* C9: in every step of enumerate_flows the flow list keeps its elements, in
\* place and unchanged; it only grows at its end.
C9_FlowsOnlyAppended == [][IsPrefix(flows, flows')]_vars

\* the run ended on a cap, with work left on the stack and flows recorded
C9_Witness ==
    /\ pc = "done"
    /\ stack # <<>>
    /\ flows # <<>>

-----------------------------------------------------------------------------
(* Claims about stage 6 *)

\* the windows emitted for one flow, in the order they were emitted
WindowsFrom(flow_id) == SelectSeq(windows, LAMBDA w : w.source_flow_id = flow_id)

\* min(max_window_length or unbounded, L)
ExpectedWindowSize(L) ==
    IF window_config.max_window_length = 0 \/ window_config.max_window_length > L
    THEN L
    ELSE window_config.max_window_length

\* C17: a flow of length L gets no window when L < min_window_length, and
\* otherwise exactly L - w + 1 windows of length w = min(max_window_length or
\* unbounded, L), one for each start offset 0..L-w in increasing order; with
\* min 2 and max 3 that is L - 2 windows for L >= 3 and one full-length window
\* for L = 2.
C17_WindowCountAndOffsets ==
    win_pc = "done" =>
        \A k \in 1..Len(flows_data) :
            LET L  == Len(flows_data[k].sequence)
                w  == ExpectedWindowSize(L)
                ws == WindowsFrom(flows_data[k].flow_id)
            IN  /\ L < window_config.min_window_length => ws = <<>>
                /\ L >= window_config.min_window_length =>
                      /\ Len(ws) = L - w + 1
                      /\ \A i \in 1..Len(ws) :
                            ws[i].start_position = i - 1 /\ ws[i].length = w
                /\ (window_config.min_window_length = 2
                      /\ window_config.max_window_length = 3) =>
                      /\ L >= 3 => Len(ws) = L - 2
                      /\ L = 2 => Len(ws) = 1 /\ ws[1].length = 2

\* a flow of four nodes cut with min 2 and max 3 into two windows, after a
\* flow of one node that got none
C17_Witness ==
    /\ win_pc = "done"
    /\ window_config = [min_window_length |-> 2, max_window_length |-> 3]
    /\ Len(flows_data) = 2
    /\ Len(flows_data[1].sequence) = 1
    /\ Len(flows_data[2].sequence) = 4
    /\ Len(windows) = 2
    /\ windows[2].start_position = 1

\* the ids of the nodes of a flow document, in order
FlowIds(flow) == MapSeq(LAMBDA item : item.id, flow.sequence)

\* chain is a contiguous slice of ids
IsSliceOf(chain, ids) ==
    \E j \in 1..(Len(ids) - Len(chain) + 1) :
        SubSeq(ids, j, j + Len(chain) - 1) = chain

\* C18: every contiguous sub-chain of a flow of length at least
\* min_window_length, whose own length lies between min_window_length and
\* max_window_length (the flow length when the maximum is unset or larger), is
\* a contiguous slice of at least one window emitted for that flow.
C18_WindowsCoverEverySubChain ==
    win_pc = "done" =>
        \A k \in 1..Len(flows_data) :
            LET ids == FlowIds(flows_data[k])
                L   == Len(ids)
                ws  == WindowsFrom(flows_data[k].flow_id)
            IN  L >= window_config.min_window_length =>
                    \A a \in 1..L : \A b \in a..L :
                        (b - a + 1 >= window_config.min_window_length
                           /\ b - a + 1 <= ExpectedWindowSize(L)) =>
                            \E i \in 1..Len(ws) :
                                IsSliceOf(SubSeq(ids, a, b), ws[i].integration_ids)

\* a flow of four nodes under min 2 and max 3: the chain of its last two nodes
\* lies in the second window only
C18_Witness ==
    /\ win_pc = "done"
    /\ window_config = [min_window_length |-> 2, max_window_length |-> 3]
    /\ Len(flows_data) = 1
    /\ Len(flows_data[1].sequence) = 4
    /\ Len(windows) = 2
    /\ ~IsSliceOf(SubSeq(FlowIds(flows_data[1]), 3, 4), windows[1].integration_ids)
    /\ IsSliceOf(SubSeq(FlowIds(flows_data[1]), 3, 4), windows[2].integration_ids)

\* the position in the flows document of the flow a window was cut from
SourceFlowIndex(w) ==
    CHOOSE k \in 1..Len(flows_data) : flows_data[k].flow_id = w.source_flow_id

\* C27: every window is the contiguous slice of its source flow from its start
\* position over its length: its integration ids are the ids of the slice in
\* order, its entry point is the first node and its exit point the last node of
\* the slice, is_boundary is true exactly when that last node has a boundary
\* descriptor, and the windows are numbered 1, 2, ... in flow order and then in
\* start-offset order, each number once.
C27_WindowIsSliceOfItsFlow ==
    win_pc = "done" =>
        /\ \A i \in 1..Len(windows) :
              LET w     == windows[i]
                  seq   == flows_data[SourceFlowIndex(w)].sequence
                  slice == SubSeq(seq, w.start_position + 1,
                                  w.start_position + w.length)
              IN  /\ \E k \in 1..Len(flows_data) : flows_data[k].flow_id = w.source_flow_id
                  /\ w.length >= 1
                  /\ w.start_position >= 0
                  /\ w.start_position + w.length <= Len(seq)
                  /\ w.integration_ids = [a \in 1..Len(slice) |-> slice[a].id]
                  /\ w.entry_point.integration_id = slice[1].id
                  /\ w.exit_point.integration_id = slice[Len(slice)].id
                  /\ w.exit_point.is_boundary <=> "boundary" \in DOMAIN slice[Len(slice)]
                  /\ w.window_id = <<"WINDOW", i>>
        /\ \A i, j \in 1..Len(windows) :
              i < j =>
                  \/ SourceFlowIndex(windows[i]) < SourceFlowIndex(windows[j])
                  \/ /\ SourceFlowIndex(windows[i]) = SourceFlowIndex(windows[j])
                     /\ windows[i].start_position < windows[j].start_position

\* a flow of three nodes ending at a boundary, cut into two windows of which
\* only the second exits at the boundary, and a second flow whose first window
\* takes the next number
C27_Witness ==
    /\ win_pc = "done"
    /\ Len(flows_data) = 2
    /\ Len(windows) >= 3
    /\ windows[1].source_flow_id = <<"FLOW", 1>>
    /\ ~windows[1].exit_point.is_boundary
    /\ windows[2].source_flow_id = <<"FLOW", 1>>
    /\ windows[2].exit_point.is_boundary
    /\ windows[3].source_flow_id = <<"FLOW", 2>>
    /\ windows[3].start_position = 0
    /\ windows[3].window_id = <<"WINDOW", 3>>

-----------------------------------------------------------------------------
(* Claims about the depth limit of stage 5 *)

\* C20: the depth check comes before the check for outgoing edges: every flow
\* has length at most max_flow_depth, its reason is depth_limit exactly when
\* its length equals max_flow_depth (also when its last node has no outgoing
\* edge), and every shorter flow has reason no_outgoing_edges.
C20_DepthCheckComesFirst ==
    \A i \in 1..Len(flows) :
        /\ flows[i].length <= max_depth
        /\ flows[i].termination.reason = "depth_limit" <=> flows[i].length = max_depth
        /\ flows[i].length < max_depth =>
              flows[i].termination.reason = "no_outgoing_edges"

\* a flow cut at max_flow_depth whose last node has no outgoing edge, next to a
\* shorter flow that ended for want of one
C20_Witness ==
    \E i, j \in 1..Len(flows) :
        /\ flows[i].termination.reason = "depth_limit"
        /\ flows[i].length = max_depth
        /\ Neighbors(graph_data, LastNode(flows[i])) = <<>>
        /\ flows[j].length < max_depth
        /\ flows[j].termination.reason = "no_outgoing_edges"

-----------------------------------------------------------------------------
(* Claims about the pipeline on the chain of two points *)

\* the flows document of the recorded flows: each flow with the nodes of its
\* sequence
FlowsDocumentOf(data, recorded) ==
    MapSeq(LAMBDA f : [flow_id |-> f.flow_id,
                       sequence |-> MapSeq(LAMBDA id : CHOOSE n \in Range(data.nodes) : n.id = id,
                                           f.sequence)],
           recorded)

\* C19: for the points A (in foo, calling bar) and B (in bar, calling baz
\* across the filesystem boundary) the pipeline ends with exactly one flow, of
\* the nodes A, B and with termination reason boundary, and with
\* min_window_length 2 exactly one window, which spans both nodes.
C19_ChainYieldsOneBoundaryFlowAndOneWindow ==
    (graph_data = ChainDocument /\ pc \in {"done", "raised"}) =>
        LET ws == generate_windows(FlowsDocumentOf(graph_data, flows),
                                   [min_window_length |-> 2, max_window_length |-> 0])
        IN  /\ pc = "done"
            /\ Len(flows) = 1
            /\ flows[1].sequence = <<"A", "B">>
            /\ flows[1].termination.reason = "boundary"
            /\ Len(ws) = 1
            /\ ws[1].integration_ids = <<"A", "B">>

-----------------------------------------------------------------------------
(* Claims about stage 4 *)

\* the entry points analyze_patterns starts a traversal from
TraversedEntries(data) == entry_points(data) \cap DOMAIN nodes_by_id(data)

\* C16: for the three resolved points whose edges form A->B->C->A, without
\* boundary and without exclusion, the analysis ends with exactly one cycle,
\* of the nodes A, B, C, A, and its occurrences are as many as the entry
\* traversals that reach it.
C16_OneCycleOfThreePoints ==
    (analysis.graph_data = CycleDocument /\ analysis.pc \in {"done", "raised"}) =>
        /\ analysis.pc = "done"
        /\ Len(analysis.cycle_patterns) = 1
        /\ analysis.cycle_patterns[1].pattern = <<"A", "B", "C", "A">>
        /\ analysis.cycle_patterns[1].occurrences =
              Cardinality(TraversedEntries(analysis.graph_data))

\* a step of the while loop in which the neighbour loop confirmed a cycle: the
\* cycle was appended or its occurrences were incremented
CycleConfirmed ==
    /\ analysis.pc = "while"
    /\ analysis'.pc = "while"
    /\ analysis'.cycle_patterns # analysis.cycle_patterns

NeighbourLoopStep ==
    /\ analysis.pc = "while"
    /\ analysis'.pc = "while"
    /\ analysis.stack # <<>>
    /\ analysis'.flows_analyzed = analysis.flows_analyzed

\* the cycles the neighbours of the popped node close on the popped path, in
\* the order of the neighbours: from the earlier position of the neighbour
\* through the neighbour, three ids at least
ClosedCycles ==
    LET path == AnalysisTop.path
    IN  FlatMap(LAMBDA n :
                    IF \E k \in 1..(Len(path) - 1) : path[k] = n
                    THEN LET k == CHOOSE k \in 1..Len(path) : path[k] = n
                         IN  <<SubSeq(path, k, Len(path)) \o <<n>>>>
                    ELSE <<>>,
                Neighbors(analysis.graph_data, AnalysisTop.current_id))

\* the patterns recorded, and how often a pattern is recorded
RecordedPatterns(cycle_patterns) ==
    {cycle_patterns[i].pattern : i \in 1..Len(cycle_patterns)}

\* C23: recorded cycles are deduplicated by exact node-sequence equality: no
\* two recorded cycles have the same pattern, a cycle discovered for the first
\* time is recorded with one occurrence, each rediscovery adds one occurrence
\* to it, and nothing else changes a record.
C23_CyclesDeduplicatedAndCounted ==
    /\ [](\A i, j \in 1..Len(analysis.cycle_patterns) :
             analysis.cycle_patterns[i].pattern = analysis.cycle_patterns[j].pattern
                => i = j)
    /\ [][NeighbourLoopStep =>
             LET before == analysis.cycle_patterns
                 after  == analysis'.cycle_patterns
             IN  IF ClosedCycles = <<>>
                 THEN after = before
                 ELSE LET found == ClosedCycles[1]
                      IN  IF found \in RecordedPatterns(before)
                          THEN /\ Len(after) = Len(before)
                               /\ \A i \in 1..Len(before) :
                                     /\ after[i].pattern = before[i].pattern
                                     /\ after[i].occurrences =
                                           IF before[i].pattern = found
                                           THEN before[i].occurrences + 1
                                           ELSE before[i].occurrences
                          ELSE /\ Len(after) = Len(before) + 1
                               /\ SubSeq(after, 1, Len(before)) = before
                               /\ after[Len(after)].pattern = found
                               /\ after[Len(after)].occurrences = 1]_vars

\* the cycle Z->Y->Z discovered from the entry A and again from the entry B
C23_Witness ==
    /\ analysis.pc = "done"
    /\ Len(analysis.cycle_patterns) = 1
    /\ analysis.cycle_patterns[1].pattern = <<"Z", "Y", "Z">>
    /\ analysis.cycle_patterns[1].occurrences = 2

\* the graph document of the analysis has an edge from one id to the other
AnalysisHasEdge(from, to) ==
    \E i \in 1..Len(analysis.graph_data.edges) :
        /\ analysis.graph_data.edges[i].from = from
        /\ analysis.graph_data.edges[i].to = to

\* the sub-paths of the popped path from an earlier position of a node through
\* that node again
SubPathsThroughClosingNeighbour ==
    {SubSeq(AnalysisTop.path, k, Len(AnalysisTop.path)) \o <<AnalysisTop.path[k]>> :
        k \in 1..Len(AnalysisTop.path)}

\* C24: every recorded cycle is a closed walk of the graph: its first and last
\* ids are equal, it has at least three entries (a self-loop A->A is never
\* recorded), every consecutive pair is an edge, and when it is recorded it is
\* the sub-path of the popped path from the earlier position of the repeated
\* node through the closing neighbour.
C24_RecordedCyclesAreClosedWalks ==
    /\ [](\A i \in 1..Len(analysis.cycle_patterns) :
             LET cycle == analysis.cycle_patterns[i].pattern
             IN  /\ Len(cycle) >= 3
                 /\ cycle[1] = cycle[Len(cycle)]
                 /\ analysis.cycle_patterns[i].length = Len(cycle)
                 /\ \A k \in 1..(Len(cycle) - 1) : AnalysisHasEdge(cycle[k], cycle[k + 1]))
    /\ [][Len(analysis'.cycle_patterns) > Len(analysis.cycle_patterns) =>
             /\ analysis.pc = "while" /\ analysis.stack # <<>>
             /\ analysis'.cycle_patterns[Len(analysis'.cycle_patterns)].pattern
                   \in SubPathsThroughClosingNeighbour
             /\ AnalysisHasEdge(AnalysisTop.current_id,
                    analysis'.cycle_patterns[Len(analysis'.cycle_patterns)].pattern[1])]_vars

\* the cycle Z->Y->Z recorded from the entry A, whose self-call A->A, met
\* first, was not
C24_Witness ==
    /\ analysis.pc = "done"
    /\ analysis.entry_order = <<"A">>
    /\ AnalysisHasEdge("A", "A")
    /\ Len(analysis.cycle_patterns) = 1
    /\ analysis.cycle_patterns[1].pattern = <<"Z", "Y", "Z">>

\* the count of an id tuple in a counter
CountOf(counts, tuple) ==
    IF \E i \in 1..Len(counts) : counts[i].pattern = tuple
    THEN counts[CHOOSE i \in 1..Len(counts) : counts[i].pattern = tuple].occurrences
    ELSE 0

\* the start positions at which the tuple is a contiguous window of the path
StartPositions(path, tuple) ==
    {i \in 1..(Len(path) - Len(tuple) + 1) : SubSeq(path, i, i + Len(tuple) - 1) = tuple}

\* the contiguous windows of 2 to 7 ids of the path
WindowsOfPath(path) ==
    {SubSeq(path, i, j) : i \in 1..Len(path), j \in 1..Len(path)}
        \cap {t \in Seq(Range(path)) : Len(t) >= 2 /\ Len(t) <= 7}

\* a step in which a branch of the analysis ended
BranchEnded == analysis'.flows_analyzed = analysis.flows_analyzed + 1

\* the traversal of every entry point is over
TraversalOver ==
    /\ analysis.pc \in {"done", "raised"}
    /\ analysis.entry_idx > Len(analysis.entry_order)

\* C25: each time a branch ends with a path of length L >= long_flow_threshold
\* the count of every contiguous id tuple of 2 to min(7, L) ids goes up by one
\* per start position, and a branch that ends below the threshold changes no
\* count; once the traversal is over the subsequences are reported, in
\* non-increasing order of count.
C25_LongPathsAreMinedAndReported ==
    /\ [][BranchEnded =>
             LET path   == AnalysisTop.path
                 before == analysis.subsequence_counts
                 after  == analysis'.subsequence_counts
             IN  IF Len(path) < long_flow_threshold
                 THEN after = before
                 ELSE /\ \A t \in WindowsOfPath(path) :
                            CountOf(after, t) =
                                CountOf(before, t) + Cardinality(StartPositions(path, t))
                      /\ \A i \in 1..Len(after) :
                            after[i].pattern \notin WindowsOfPath(path) =>
                                CountOf(before, after[i].pattern) = after[i].occurrences]_vars
    /\ [](TraversalOver =>
             /\ analysis.pc = "done"
             /\ \A i \in 1..(Len(analysis.subsequence_counts) - 1) :
                   analysis.subsequence_counts[i].occurrences
                       >= analysis.subsequence_counts[i + 1].occurrences)

\* the loaded node of the id is marked excluded
ExcludedInAnalysis(id) ==
    /\ id \in DOMAIN nodes_by_id(analysis.graph_data)
    /\ nodes_by_id(analysis.graph_data)[id].exclude_from_flows

\* C30: analyze_patterns ends on every graph: every path on its stack is
\* simple, each id of the path has exactly one position in visited_indices,
\* the path is no longer than the maximum depth of the pattern analysis, and
\* no path goes on past a node that is classified terminal or marked excluded.
C30_AnalyzePatternsTerminates ==
    /\ <>(analysis.pc \in {"done", "raised"})
    /\ [](\A i \in 1..Len(analysis.stack) :
             LET path    == analysis.stack[i].path
                 indices == analysis.stack[i].visited_indices
             IN  /\ \A a, b \in 1..Len(path) : path[a] = path[b] => a = b
                 /\ DOMAIN indices = Range(path)
                 /\ \A a \in 1..Len(path) : indices[path[a]] = <<a - 1>>
                 /\ Len(path) <= pattern_max_depth
                 /\ \A a \in 1..(Len(path) - 1) :
                       /\ path[a] \notin terminal_nodes(analysis.graph_data)
                       /\ ~ExcludedInAnalysis(path[a]))

\* the analysis has ended after the traversals of two entry points, one of
\* whose paths was cut at the maximum depth
C30_Witness ==
    /\ analysis.pc \in {"done", "raised"}
    /\ Len(analysis.entry_order) = 2
    /\ analysis.entry_idx > Len(analysis.entry_order)
    /\ analysis.flow_lengths = <<pattern_max_depth>>
    /\ analysis.total_paths_explored > pattern_max_depth

-----------------------------------------------------------------------------
(* Claims about the branches of stage 5 *)

\* C21: every search branch of enumerate_flows ends in a recorded flow: when
\* no cap is hit, the iteration that pops a state either records a flow or
\* pushes at least one successor state, also when every out-edge of the popped
\* node leads back to a node of the path.
C21_EveryBranchEndsInAFlow ==
    [][(NoCapHit /\ pc' # "raised") =>
           \/ Len(flows') = Len(flows) + 1
           \/ Len(stack') >= Len(stack)]_vars

\* every from and to of the graph document's edges is the id of a node
EdgeEndpointsAreNodes ==
    LET ids == {graph_data.nodes[k].id : k \in 1..Len(graph_data.nodes)}
    IN  \A i \in 1..Len(graph_data.edges) :
            graph_data.edges[i].from \in ids /\ graph_data.edges[i].to \in ids

\* C28: when every edge endpoint is a node of the graph, every recorded flow
\* is a path of the graph: its first node is the entry point of its entry
\* descriptor and is in the classification's entry set, every two consecutive
\* nodes of its sequence are joined by an edge, its termination descriptor
\* names its last node, and its length field is the number of its nodes.
C28_EveryFlowIsAPathOfTheGraph ==
    EdgeEndpointsAreNodes =>
        \A i \in 1..Len(flows) :
            LET f == flows[i]
            IN  /\ f.sequence # <<>>
                /\ f.sequence[1] = f.entry_point.integration_id
                /\ f.sequence[1] \in entry_points(graph_data)
                /\ \A a \in 1..(Len(f.sequence) - 1) :
                      HasEdge(f.sequence[a], f.sequence[a + 1])
                /\ f.termination.integration_id = LastNode(f)
                /\ f.length = Len(f.sequence)

\* flows of one, two and three nodes were recorded, from two entry points
C28_Witness ==
    /\ EdgeEndpointsAreNodes
    /\ \E i, j, k \in 1..Len(flows) :
          /\ flows[i].length = 1
          /\ flows[j].length = 2
          /\ flows[k].length = 3
          /\ flows[i].entry_point.integration_id # flows[k].entry_point.integration_id

-----------------------------------------------------------------------------
(* Claims about the hand-off of the graph document *)

\* C29: every node that build_integration_graph marks excluded is excluded,
\* with the same fixture callable id, once the graph document is loaded through
\* load_graph_nodes.
C29_ExclusionSurvivesTheHandOff ==
    stage = "graph" =>
        LET loaded == load_graph_nodes(GraphDocumentOf(graph))
        IN  \A i \in 1..Len(graph.nodes) :
                graph.nodes[i].excludeFromFlows =>
                    /\ loaded[i].id = graph.nodes[i].id
                    /\ loaded[i].exclude_from_flows
                    /\ loaded[i].fixture_callable_id = graph.nodes[i].fixtureCallableId

=============================================================================
